---- MODULE Spec2Model ----
(***************************************************************************)
(* A model of the physiotherapy dashboard's request handlers and helpers:  *)
(*   - the three HTTP handlers (analyze-patient, send-sms, change-password)*)
(*   - the billing-cycle date helpers                                       *)
(*   - the employee CSV exports and the employee form of the admin page    *)
(*   - the two report-version loaders (progress analytics, AI analytics)   *)
(* Each part has its own variables, initial condition, actions and         *)
(* specification; the other parts' variables stay at their initial values. *)
(***************************************************************************)
EXTENDS Integers, Sequences, FiniteSets, TLC

VARIABLES
    \* ---- HTTP handlers ----
    apiHandler,     \* which handler serves the request in flight
    apiPc,          \* its position: idle, body, verify, upstream, done
    apiReq,         \* the request and the environment it runs in
    apiUpstream,    \* how the upstream call settled (for the record)
    apiResponses,   \* the JSON responses produced for the request in flight
    apiEscaped,     \* an exception left the handler
    authPassword,   \* the user's password in the auth service
    pwBefore,       \* the user's password when the request arrived
    updateCalls,    \* calls of authAdmin.updateUser made by the request
    \* ---- billing-cycle helpers ----
    bcTz,           \* the host's time zone: local time minus UTC, in minutes
    bcPc,           \* idle, or computed: the results below belong to bcInput
    bcInput,        \* the date given: a Date or a 'YYYY-MM-DD' text
    bcCycle,        \* getBillingCycleForDate(bcInput)
    bcIn,           \* isDateInBillingCycle(bcInput, bcCycle.startDate, bcCycle.endDate)
    bcOther,        \* the same test for the start and end dates of another month's cycle
    \* ---- employee CSV exports ----
    csvEmployees,   \* the employees state of the admin page
    csvShowDeleted, \* showDeletedEmployees
    csvPc,          \* idle, or which export has just run
    csvRows,        \* the cell values of the rows the export wrote
    csvHeaders,     \* its header row
    csvContent,     \* the text it wrote
    \* ---- employee form of the admin page ----
    isDialogOpen,
    editingEmployee,  \* the employee being edited, NullEmployee for none
    formState,
    saving,
    error,            \* "null" or which message is shown
    usrPending,       \* the Firestore write handleSubmit awaits: none, addDoc, updateDoc
    usrWrites,        \* Firestore writes attempted so far
    usrLast,          \* the handler that ran last, with the writes attempted before it
    \* ---- PatientProgressAnalytics, loadData ----
    progPc,           \* idle, patient, reports, fallback, done
    progNow,          \* what new Date() returns during the load
    progDocs,         \* the reportVersions documents the query delivered
    patientInfo,
    reportVersions,
    progLoading,
    progError,
    \* ---- analytics service, fetchPatientAnalytics ----
    anPc,             \* idle, the query awaited, fetch, returned, thrown
    anNow,            \* what new Date() returns during the call
    anDocs,           \* the patient's reportVersions documents as stored
    anQueries,        \* the orderBy field of each query issued, in order
    anSnapshot,       \* the documents of the query that resolved
    anPosted,         \* the reportHistory of each POST to /api/analyze-patient
    anCodes,          \* the error code of each query that rejected, in order
    \* ---- employee list of the admin page (shares saving and error with the form) ----
    staffDocs,        \* the documents of the staff collection, by id
    staffListening,   \* the onSnapshot subscription is alive
    employees,
    showDeletedEmployees,
    delPending,       \* the id whose updateDoc handleDelete awaits, 0 for none
    staffLast,         \* the handler that ran last, the documents before it, the ids removed
    \* ---- useLocalStorage ----
    lsStore,          \* window.localStorage: the item under each key
    lsKey,            \* the key prop of the current render
    storedValue,
    isHydrated,
    lsEffects,        \* the effects of the last render that have not run yet
    lsLog,            \* the getItem and setItem calls made, in order
    lsGhost,           \* the item under the mount key at mount, renders and events so far
    \* ---- LeaveRequestNotification ----
    lrDocs,           \* approvalRequestedToEmail of each pending leave request, by id
    lrUser,           \* the signed-in user's email, "null" for none
    lrNow,            \* Date.now()
    pendingCount,
    previousRequestIds,
    hasInitialized,
    toasts,
    lrTimers,         \* the toast ids whose auto-remove timer has not fired
    lrGhost,           \* what the last handler did, and the snapshots of this subscription
    \* ---- handleLogout of the sidebar ----
    loPc,             \* each invocation: idle, signOut (awaiting it), done
    loCurrentUser,    \* localStorage has the 'currentUser' item
    loLog,             \* the calls made and the settling of signOut, in order
    \* ---- billing cycle totals ----
    btRecords,        \* the billing collection, by record id
    btCycles,         \* the billingCycles documents of the month, by document id
    btCalls,          \* the calls of updateCycleTotalAmount / updateCycleTotalForDate
    btGhost,           \* the billing-record writes so far
    \* ---- AnalyticsModal ----
    amMounted,        \* the parent renders the modal component
    amIsOpen,         \* prop isOpen
    amPatientId,      \* prop patientId
    amAnalytics,      \* state analytics
    amLoading,        \* state loading
    amError,          \* state error
    amFetches,        \* calls of fetchPatientAnalytics not yet settled
    amGhost,           \* fetches started so far
    \* ---- billing cycles around the current date ----
    cyTz,             \* the host's offset from UTC, in minutes
    cyNow,            \* the instant new Date() returns
    cyCurrent,        \* result of getCurrentBillingCycle()
    cyPrevious,       \* result of getPreviousBillingCycle()
    cyNext,            \* result of getNextBillingCycle()
    \* ---- completionStatus ----
    csPatient,        \* the patients document loadData reads
    csLength,         \* reportVersions.length
    csStatus          \* the value of the completionStatus memo

varsApi == <<apiHandler, apiPc, apiReq, apiUpstream, apiResponses, apiEscaped,
             authPassword, pwBefore, updateCalls>>

varsBilling == <<bcTz, bcPc, bcInput, bcCycle, bcIn, bcOther>>

varsCsv == <<csvEmployees, csvShowDeleted, csvPc, csvRows, csvHeaders, csvContent>>

varsUsers == <<isDialogOpen, editingEmployee, formState, saving, error, usrPending,
               usrWrites, usrLast>>

varsProgress == <<progPc, progNow, progDocs, patientInfo, reportVersions, progLoading,
                  progError>>

varsAnalytics == <<anPc, anNow, anDocs, anQueries, anSnapshot, anPosted, anCodes>>

\* The form's state without saving and error, which the list's handlers also set.
varsForm == <<isDialogOpen, editingEmployee, formState, usrPending, usrWrites, usrLast>>

varsStaff == <<staffDocs, staffListening, employees, showDeletedEmployees, delPending, staffLast>>

varsLs == <<lsStore, lsKey, storedValue, isHydrated, lsEffects, lsLog, lsGhost>>

varsLr == <<lrDocs, lrUser, lrNow, pendingCount, previousRequestIds, hasInitialized, toasts, lrTimers, lrGhost>>

varsLo == <<loPc, loCurrentUser, loLog>>

varsBt == <<btRecords, btCycles, btCalls, btGhost>>

varsAm == <<amMounted, amIsOpen, amPatientId, amAnalytics, amLoading, amError, amFetches, amGhost>>

varsCy == <<cyTz, cyNow, cyCurrent, cyPrevious, cyNext>>

varsCs == <<csPatient, csLength, csStatus>>

vars == <<varsApi, varsBilling, varsCsv, varsUsers, varsProgress, varsAnalytics, varsStaff, varsLs, varsLr, varsLo, varsBt, varsAm, varsCy, varsCs>>

OtherThanApi == <<varsBilling, varsCsv, varsUsers, varsProgress, varsAnalytics, varsStaff, varsLs, varsLr, varsLo, varsBt, varsAm, varsCy, varsCs>>
OtherThanBilling == <<varsApi, varsCsv, varsUsers, varsProgress, varsAnalytics, varsStaff, varsLs, varsLr, varsLo, varsBt, varsAm, varsCy, varsCs>>
OtherThanCsv == <<varsApi, varsBilling, varsUsers, varsProgress, varsAnalytics, varsStaff, varsLs, varsLr, varsLo, varsBt, varsAm, varsCy, varsCs>>
OtherThanUsers == <<varsApi, varsBilling, varsCsv, varsProgress, varsAnalytics, varsStaff, varsLs, varsLr, varsLo, varsBt, varsAm, varsCy, varsCs>>
OtherThanProgress == <<varsApi, varsBilling, varsCsv, varsUsers, varsAnalytics, varsStaff, varsLs, varsLr, varsLo, varsBt, varsAm, varsCy, varsCs>>
OtherThanAnalytics == <<varsApi, varsBilling, varsCsv, varsUsers, varsProgress, varsStaff, varsLs, varsLr, varsLo, varsBt, varsAm, varsCy, varsCs>>
OtherThanStaff == <<varsApi, varsBilling, varsCsv, varsForm, varsProgress, varsAnalytics, varsLs, varsLr, varsLo, varsBt, varsAm, varsCy, varsCs>>
OtherThanLs == <<varsApi, varsBilling, varsCsv, varsUsers, varsProgress, varsAnalytics, varsStaff, varsLr, varsLo, varsBt, varsAm, varsCy, varsCs>>
OtherThanLr == <<varsApi, varsBilling, varsCsv, varsUsers, varsProgress, varsAnalytics, varsStaff, varsLs, varsLo, varsBt, varsAm, varsCy, varsCs>>
OtherThanLo == <<varsApi, varsBilling, varsCsv, varsUsers, varsProgress, varsAnalytics, varsStaff, varsLs, varsLr, varsBt, varsAm, varsCy, varsCs>>
OtherThanBt == <<varsApi, varsBilling, varsCsv, varsUsers, varsProgress, varsAnalytics, varsStaff, varsLs, varsLr, varsLo, varsAm, varsCy, varsCs>>
OtherThanAm == <<varsApi, varsBilling, varsCsv, varsUsers, varsProgress, varsAnalytics, varsStaff, varsLs, varsLr, varsLo, varsBt, varsCy, varsCs>>
OtherThanCy == <<varsApi, varsBilling, varsCsv, varsUsers, varsProgress, varsAnalytics, varsStaff, varsLs, varsLr, varsLo, varsBt, varsAm, varsCs>>
OtherThanCs == <<varsApi, varsBilling, varsCsv, varsUsers, varsProgress, varsAnalytics, varsStaff, varsLs, varsLr, varsLo, varsBt, varsAm, varsCy>>

(***************************************************************************)
(* Strings are sequences of characters.                                    *)
(***************************************************************************)
Rep(c, n) == [i \in 1..n |-> c]

IsSpace(c) == c \in {" ", "\n", "\t"}

RECURSIVE TrimLeft(_)
TrimLeft(s) == IF s = <<>> THEN <<>>
               ELSE IF IsSpace(Head(s)) THEN TrimLeft(Tail(s)) ELSE s

RECURSIVE TrimRight(_)
TrimRight(s) == IF s = <<>> THEN <<>>
                ELSE IF IsSpace(s[Len(s)]) THEN TrimRight(SubSeq(s, 1, Len(s) - 1)) ELSE s

\* String.prototype.trim
Trim(s) == TrimRight(TrimLeft(s))

(***************************************************************************)
(*                           HTTP HANDLERS                                 *)
(***************************************************************************)

\* An error value: the fields the handlers read from it.
NoErr == [status |-> 0, code |-> "none"]

\* What the upstream SDK calls can reject with.
UpstreamErrors == [status : {0, 401, 429, 500}, code : {"none", "rate_limit_exceeded", "other"}]

\* What one synchronous stretch of a handler ends with.
Respond(st, ok, d) == [type |-> "respond", resp |-> [status |-> st, success |-> ok, data |-> d], err |-> NoErr]
Throw(e) == [type |-> "throw", resp |-> [status |-> 0, success |-> FALSE, data |-> "none"], err |-> e]
Await(what) == [type |-> what, resp |-> [status |-> 0, success |-> FALSE, data |-> "none"], err |-> NoErr]

\* try { body } catch (e) { handler(e) }
Caught(outcome, handled) == IF outcome.type = "throw" THEN handled ELSE outcome

NoReq == [body |-> "none", reportHistory |-> "none", apiKey |-> FALSE,
          to |-> FALSE, message |-> FALSE, twilioEnv |-> FALSE,
          idToken |-> <<>>, currentPassword |-> <<>>, newPassword |-> <<>>]

NoUpstream == [kind |-> "none", err |-> NoErr, value |-> "none"]

\* ---------------- analyze-patient ----------------

\* The canned answer of the rate-limit fallback: NextResponse.json without a
\* status is a 200.
FallbackResponse == Respond(200, TRUE, "fallback")

\* From the parsed body to the chat-completion call.
AnalyzeAfterBody(req) ==
    IF req.body = "malformed" THEN Throw(NoErr)            \* req.json() rejects
    ELSE IF req.body = "null" THEN Throw(NoErr)            \* destructuring null: TypeError
    ELSE IF req.reportHistory \in {"missing", "notArray"} THEN Respond(400, FALSE, "error")
    ELSE IF req.reportHistory = "empty" THEN Respond(400, FALSE, "error")
    ELSE IF ~req.apiKey THEN Respond(500, FALSE, "error")
    ELSE Await("upstream")

IsRateLimit(e) == e.status = 429 \/ e.code = "rate_limit_exceeded"

\* A variant of the catch below that knows the rate limit by its status only.
AnalyzeRateLimitCatchStatusOnly(e) ==
    IF e.status = 429 THEN FallbackResponse ELSE Throw(e)

\* The catch around the chat-completion call.
AnalyzeRateLimitCatch(e) ==
    IF IsRateLimit(e) THEN FallbackResponse ELSE Throw(e)

\* The replies the chat-completion call can resolve with.
Completions == {"noChoices", "emptyChoices", "emptyContent", "notJson", "jsonNull",
                "missingFields", "valid"}

\* From the completion to the response.
AnalyzeHandleCompletion(c) ==
    IF c = "noChoices" THEN Throw(NoErr)                   \* completion.choices[0] of undefined
    ELSE IF c \in {"emptyChoices", "emptyContent"} THEN Respond(500, FALSE, "error")
    ELSE IF c = "notJson" THEN Respond(500, FALSE, "error")
    ELSE IF c = "jsonNull" THEN Throw(NoErr)               \* null.summary: TypeError
    ELSE IF c = "missingFields" THEN Respond(500, FALSE, "error")
    ELSE Respond(200, TRUE, "analysis")

\* The handler's outer catch.
AnalyzeCatch(e) ==
    IF e.status = 401 THEN Respond(401, FALSE, "error")
    ELSE IF IsRateLimit(e) THEN FallbackResponse
    ELSE Respond(500, FALSE, "error")

\* ---------------- send-sms ----------------

SmsAfterBody(req) ==
    IF req.body = "malformed" THEN Throw(NoErr)
    ELSE IF req.body = "null" \/ ~req.to \/ ~req.message THEN Respond(400, FALSE, "error")
    ELSE IF ~req.twilioEnv THEN Respond(500, FALSE, "error")
    ELSE Await("upstream")

\* A variant of the catch below that throws the error on.
SmsCatchRethrow(e) == Throw(e)

SmsCatch(e) == Respond(500, FALSE, "error")

\* ---------------- change-password ----------------

MinPasswordLength == 6

\* String(body?.field || '').trim()
PasswordField(req, f) == IF req.body = "object" THEN Trim(req[f]) ELSE <<>>

\* A variant of the validation below without the length check.
PasswordAfterBodyNoLength(req) ==
    IF req.body = "malformed" THEN Throw(NoErr)
    ELSE IF PasswordField(req, "idToken") = <<>> THEN Respond(401, FALSE, "error")
    ELSE IF PasswordField(req, "currentPassword") = <<>> THEN Respond(400, FALSE, "error")
    ELSE IF PasswordField(req, "newPassword") = <<>> THEN Respond(400, FALSE, "error")
    ELSE Await("verify")

PasswordAfterBody(req) ==
    IF req.body = "malformed" THEN Throw(NoErr)
    ELSE IF PasswordField(req, "idToken") = <<>> THEN Respond(401, FALSE, "error")
    ELSE IF PasswordField(req, "currentPassword") = <<>> THEN Respond(400, FALSE, "error")
    ELSE IF PasswordField(req, "newPassword") = <<>> THEN Respond(400, FALSE, "error")
    ELSE IF Len(PasswordField(req, "newPassword")) < MinPasswordLength THEN Respond(400, FALSE, "error")
    ELSE Await("verify")

\* The catch around verifyIdToken.
PasswordVerifyCatch(e) == Respond(401, FALSE, "error")

\* After the token is decoded: the email check, then the call of updateUser.
PasswordAfterVerify(hasEmail) ==
    IF ~hasEmail THEN Respond(400, FALSE, "error") ELSE Await("upstream")

\* The catch around updateUser.
PasswordUpdateCatch(e) == Respond(500, FALSE, "error")

\* The handler's outer catch.
PasswordCatch(e) == Respond(500, FALSE, "error")

\* The token the auth service accepts for the signed-in user.
ValidToken == <<"t">>

\* ---------------- requests ----------------

TokenSamples == {<<>>, <<" ">>, ValidToken, <<" ", "t", " ">>, <<"x">>}
PasswordSamples == {<<>>, <<" ", " ">>, Rep("n", MinPasswordLength - 1), Rep("n", MinPasswordLength),
                    <<" ">> \o Rep("n", MinPasswordLength - 1) \o <<" ">>,
                    <<" ">> \o Rep("m", MinPasswordLength)}
CurrentSamples == {<<>>, <<" ">>, Rep("o", MinPasswordLength), Rep("n", MinPasswordLength), <<"w">>}

AnalyzeRequests ==
    {[NoReq EXCEPT !.body = b, !.reportHistory = h, !.apiKey = k] :
        b \in {"malformed", "null", "object"},
        h \in {"missing", "notArray", "empty", "nonEmpty"}, k \in BOOLEAN}
SmsRequests ==
    {[NoReq EXCEPT !.body = b, !.to = t, !.message = m, !.twilioEnv = e] :
        b \in {"malformed", "null", "object"}, t \in BOOLEAN, m \in BOOLEAN, e \in BOOLEAN}
PasswordRequests ==
    {[NoReq EXCEPT !.body = b, !.idToken = t, !.currentPassword = c, !.newPassword = n] :
        b \in {"malformed", "null", "object"}, t \in TokenSamples,
        c \in CurrentSamples, n \in PasswordSamples}

InitApi ==
    /\ apiHandler = "none"
    /\ apiPc = "idle"
    /\ apiReq = NoReq
    /\ apiUpstream = NoUpstream
    /\ apiResponses = <<>>
    /\ apiEscaped = FALSE
    /\ authPassword = Rep("o", MinPasswordLength)
    /\ pwBefore = Rep("o", MinPasswordLength)
    /\ updateCalls = 0

\* What a stretch of a handler leaves behind: a response, an escaped
\* exception, or a pending call.
Settle(outcome) ==
    /\ apiResponses' = IF outcome.type = "respond" THEN Append(apiResponses, outcome.resp)
                       ELSE apiResponses
    /\ apiEscaped' = (apiEscaped \/ outcome.type = "throw")
    /\ apiPc' = IF outcome.type \in {"respond", "throw"} THEN "done" ELSE outcome.type

ApiReceive ==
    /\ apiPc = "idle"
    /\ \E h \in {"analyze", "sms", "password"} :
         /\ apiHandler' = h
         /\ apiReq' \in (CASE h = "analyze" -> AnalyzeRequests
                           [] h = "sms" -> SmsRequests
                           [] OTHER -> PasswordRequests)
    /\ apiPc' = "body"
    /\ apiUpstream' = NoUpstream
    /\ apiResponses' = <<>>
    /\ apiEscaped' = FALSE
    /\ pwBefore' = authPassword
    /\ updateCalls' = 0
    /\ UNCHANGED authPassword
    /\ UNCHANGED OtherThanApi

AnalyzeBody ==
    /\ apiHandler = "analyze" /\ apiPc = "body"
    /\ LET o == AnalyzeAfterBody(apiReq)
       IN Settle(Caught(o, AnalyzeCatch(o.err)))
    /\ UNCHANGED <<apiHandler, apiReq, apiUpstream, authPassword, pwBefore, updateCalls>>
    /\ UNCHANGED OtherThanApi

AnalyzeCompletionResolved ==
    /\ apiHandler = "analyze" /\ apiPc = "upstream"
    /\ \E c \in Completions :
         /\ apiUpstream' = [kind |-> "resolved", err |-> NoErr, value |-> c]
         /\ LET o == AnalyzeHandleCompletion(c)
            IN Settle(Caught(o, AnalyzeCatch(o.err)))
    /\ UNCHANGED <<apiHandler, apiReq, authPassword, pwBefore, updateCalls>>
    /\ UNCHANGED OtherThanApi

AnalyzeCompletionRejected ==
    /\ apiHandler = "analyze" /\ apiPc = "upstream"
    /\ \E e \in UpstreamErrors :
         /\ apiUpstream' = [kind |-> "rejected", err |-> e, value |-> "none"]
         /\ LET o == AnalyzeRateLimitCatch(e)
            IN Settle(Caught(o, AnalyzeCatch(o.err)))
    /\ UNCHANGED <<apiHandler, apiReq, authPassword, pwBefore, updateCalls>>
    /\ UNCHANGED OtherThanApi

SmsBody ==
    /\ apiHandler = "sms" /\ apiPc = "body"
    /\ LET o == SmsAfterBody(apiReq)
       IN Settle(Caught(o, SmsCatch(o.err)))
    /\ UNCHANGED <<apiHandler, apiReq, apiUpstream, authPassword, pwBefore, updateCalls>>
    /\ UNCHANGED OtherThanApi

SmsCreateResolved ==
    /\ apiHandler = "sms" /\ apiPc = "upstream"
    /\ apiUpstream' = [kind |-> "resolved", err |-> NoErr, value |-> "sms"]
    /\ Settle(Respond(200, TRUE, "sms"))
    /\ UNCHANGED <<apiHandler, apiReq, authPassword, pwBefore, updateCalls>>
    /\ UNCHANGED OtherThanApi

SmsCreateRejected ==
    /\ apiHandler = "sms" /\ apiPc = "upstream"
    /\ \E e \in UpstreamErrors :
         /\ apiUpstream' = [kind |-> "rejected", err |-> e, value |-> "none"]
         /\ Settle(Caught(Throw(e), SmsCatch(e)))
    /\ UNCHANGED <<apiHandler, apiReq, authPassword, pwBefore, updateCalls>>
    /\ UNCHANGED OtherThanApi

PasswordBody ==
    /\ apiHandler = "password" /\ apiPc = "body"
    /\ LET o == PasswordAfterBody(apiReq)
       IN Settle(Caught(o, PasswordCatch(o.err)))
    /\ UNCHANGED <<apiHandler, apiReq, apiUpstream, authPassword, pwBefore, updateCalls>>
    /\ UNCHANGED OtherThanApi

\* verifyIdToken resolves only for the token the auth service issued.

PasswordVerifyResolved ==
    /\ apiHandler = "password" /\ apiPc = "verify"
    /\ PasswordField(apiReq, "idToken") = ValidToken
    /\ \E hasEmail \in BOOLEAN :
         LET o == PasswordAfterVerify(hasEmail)
         IN /\ apiUpstream' = [kind |-> "verified", err |-> NoErr,
                                value |-> IF hasEmail THEN "email" ELSE "noEmail"]
            /\ Settle(Caught(o, PasswordCatch(o.err)))
            /\ updateCalls' = IF o.type = "upstream" THEN updateCalls + 1 ELSE updateCalls
    /\ UNCHANGED <<apiHandler, apiReq, authPassword, pwBefore>>
    /\ UNCHANGED OtherThanApi

PasswordVerifyRejected ==
    /\ apiHandler = "password" /\ apiPc = "verify"
    /\ \E e \in UpstreamErrors :
         /\ apiUpstream' = [kind |-> "rejected", err |-> e, value |-> "none"]
         /\ LET o == PasswordVerifyCatch(e)
            IN Settle(Caught(o, PasswordCatch(o.err)))
    /\ UNCHANGED <<apiHandler, apiReq, authPassword, pwBefore, updateCalls>>
    /\ UNCHANGED OtherThanApi

PasswordUpdateResolved ==
    /\ apiHandler = "password" /\ apiPc = "upstream"
    /\ authPassword' = PasswordField(apiReq, "newPassword")
    /\ Settle(Respond(200, TRUE, "changed"))
    /\ UNCHANGED <<apiHandler, apiReq, apiUpstream, pwBefore, updateCalls>>
    /\ UNCHANGED OtherThanApi

PasswordUpdateRejected ==
    /\ apiHandler = "password" /\ apiPc = "upstream"
    /\ \E e \in UpstreamErrors :
         LET o == PasswordUpdateCatch(e)
         IN Settle(Caught(o, PasswordCatch(o.err)))
    /\ UNCHANGED <<apiHandler, apiReq, apiUpstream, authPassword, pwBefore, updateCalls>>
    /\ UNCHANGED OtherThanApi

\* The response is sent; the next request may arrive.

ApiDone ==
    /\ apiPc = "done"
    /\ apiPc' = "idle"
    /\ apiHandler' = "none"
    /\ apiReq' = NoReq
    /\ apiUpstream' = NoUpstream
    /\ apiResponses' = <<>>
    /\ apiEscaped' = FALSE
    /\ pwBefore' = authPassword
    /\ updateCalls' = 0
    /\ UNCHANGED authPassword
    /\ UNCHANGED OtherThanApi

NextApi ==
    \/ ApiReceive
    \/ AnalyzeBody \/ AnalyzeCompletionResolved \/ AnalyzeCompletionRejected
    \/ SmsBody \/ SmsCreateResolved \/ SmsCreateRejected
    \/ PasswordBody \/ PasswordVerifyResolved \/ PasswordVerifyRejected
    \/ PasswordUpdateResolved \/ PasswordUpdateRejected
    \/ ApiDone

(***************************************************************************)
(*                      BILLING-CYCLE DATE HELPERS                         *)
(* A Date is an instant: a day number (days since 1970-01-01, UTC) and the *)
(* milliseconds into that day.  The Date methods the helpers use read and   *)
(* write it in the host's local time, bcTz minutes ahead of UTC.            *)
(***************************************************************************)

\* The range of years the dates are drawn from.
FirstYear == 2023
LastYear == 2024

MsPerDay == 86400000
MsPerMinute == 60000

\* The host time zones tried: New York (winter), UTC, India.
TzOffsets == {-300, 0, 330}

\* Day number of a civil date, and back (the engine's MakeDay and
\* YearFromTime/MonthFromTime/DateFromTime).
DaysFromCivil(y, m, d) ==
    LET yy == IF m <= 2 THEN y - 1 ELSE y
        era == yy \div 400
        yoe == yy - era * 400
        mp == IF m > 2 THEN m - 3 ELSE m + 9
        doy == ((153 * mp + 2) \div 5) + d - 1
        doe == yoe * 365 + (yoe \div 4) - (yoe \div 100) + doy
    IN era * 146097 + doe - 719468

CivilFromDays(n) ==
    LET z == n + 719468
        era == z \div 146097
        doe == z - era * 146097
        yoe == (doe - (doe \div 1460) + (doe \div 36524) - (doe \div 146096)) \div 365
        doy == doe - (365 * yoe + (yoe \div 4) - (yoe \div 100))
        mp == (5 * doy + 2) \div 153
        d == doy - ((153 * mp + 2) \div 5) + 1
        m == IF mp < 10 THEN mp + 3 ELSE mp - 9
        y == yoe + era * 400 + (IF m <= 2 THEN 1 ELSE 0)
    IN [y |-> y, m |-> m, d |-> d]

\* An instant moved by delta milliseconds.
AddMs(t, delta) ==
    LET total == t.ms + delta
    IN [day |-> t.day + (total \div MsPerDay), ms |-> total % MsPerDay]

\* a <= b for instants.
NotAfter(a, b) == a.day < b.day \/ (a.day = b.day /\ a.ms <= b.ms)

\* The instant read in local time.
LocalTime(t, tz) == AddMs(t, tz * MsPerMinute)

\* getFullYear(), getMonth() + 1 and getDate() of an instant.
LocalCivil(t, tz) == CivilFromDays(LocalTime(t, tz).day)

\* new Date(year, monthIndex, day): local midnight; a month index or day
\* outside its range carries over (day 0 is the last day of the month before).
NewDateLocal(year, monthIndex, day, tz) ==
    LET y == year + (monthIndex \div 12)
        m == (monthIndex % 12) + 1
    IN AddMs([day |-> DaysFromCivil(y, m, 1) + day - 1, ms |-> 0], -(tz * MsPerMinute))

\* date.setHours(23, 59, 59, 999): the last millisecond of the instant's local day.
SetHoursEndOfDay(t, tz) ==
    AddMs([day |-> LocalTime(t, tz).day, ms |-> MsPerDay - 1], -(tz * MsPerMinute))

\* Decimal digits.
DigitChars == <<"0", "1", "2", "3", "4", "5", "6", "7", "8", "9">>
DigitValue(c) == (CHOOSE i \in 1..10 : DigitChars[i] = c) - 1

\* String(n) for n >= 0.
RECURSIVE NumberToString(_)
NumberToString(n) ==
    IF n < 10 THEN <<DigitChars[n + 1]>>
    ELSE NumberToString(n \div 10) \o <<DigitChars[(n % 10) + 1]>>

\* s.padStart(2, '0')
PadStart2(s) == IF Len(s) < 2 THEN <<"0">> \o s ELSE s

\* Number of a run of digits.
RECURSIVE StringToNumber(_)
StringToNumber(s) ==
    IF s = <<>> THEN 0
    ELSE 10 * StringToNumber(SubSeq(s, 1, Len(s) - 1)) + DigitValue(s[Len(s)])

\* formatDate(date): `${year}-${month}-${day}` in local time.
FormatDate(t, tz) ==
    LET c == LocalCivil(t, tz)
    IN NumberToString(c.y) \o <<"-">> \o PadStart2(NumberToString(c.m))
       \o <<"-">> \o PadStart2(NumberToString(c.d))

\* new Date('YYYY-MM-DD'): a date-only text is midnight UTC of that date.
NewDateFromText(s) ==
    [day |-> DaysFromCivil(StringToNumber(SubSeq(s, 1, 4)), StringToNumber(SubSeq(s, 6, 7)),
                           StringToNumber(SubSeq(s, 9, 10))),
     ms |-> 0]

\* typeof date === 'string' ? new Date(date) : date
ToDate(date) == IF date.kind = "string" THEN NewDateFromText(date.text) ELSE date.instant

GetBillingCycleForDate(date, tz) ==
    LET d == ToDate(date)
        year == LocalCivil(d, tz).y
        month == LocalCivil(d, tz).m
        startDate == NewDateLocal(year, month - 1, 1, tz)
        endDate == NewDateLocal(year, month, 0, tz)
    IN [month |-> month, year |-> year,
        startDate |-> FormatDate(startDate, tz), endDate |-> FormatDate(endDate, tz)]

IsDateInBillingCycle(date, cycleStart, cycleEnd, tz) ==
    LET d == ToDate(date)
        start == NewDateFromText(cycleStart)
        end == SetHoursEndOfDay(NewDateFromText(cycleEnd), tz)
    IN NotAfter(start, d) /\ NotAfter(d, end)

\* ---------------- inputs ----------------

\* Days of the months, by the calendar's rule.
IsLeapYear(y) == (y % 4 = 0 /\ y % 100 # 0) \/ y % 400 = 0
DaysInMonth(y, m) ==
    IF m = 2 THEN (IF IsLeapYear(y) THEN 29 ELSE 28)
    ELSE IF m \in {4, 6, 9, 11} THEN 30 ELSE 31

\* 'YYYY-MM-DD', zero-padded, of a civil date with a four-digit year.
IsoText(y, m, d) ==
    <<DigitChars[(y \div 1000) + 1], DigitChars[((y \div 100) % 10) + 1],
      DigitChars[((y \div 10) % 10) + 1], DigitChars[(y % 10) + 1], "-",
      DigitChars[(m \div 10) + 1], DigitChars[(m % 10) + 1], "-",
      DigitChars[(d \div 10) + 1], DigitChars[(d % 10) + 1]>>

\* The days of a month tried: its first days, a middle one, and every last day.
DaysTried == {1, 2, 15, 27, 28, 29, 30, 31}

CivilDates ==
    {[y |-> y, m |-> m, d |-> d] : y \in FirstYear..LastYear, m \in 1..12, d \in DaysTried}

\* Times of day, in milliseconds: the first and the last instant of a day,
\* and instants around the offsets of the time zones.
TimesOfDay == {0, 19799999, 19800000, 68400000, 86399999}

\* A Date built in the host's zone for a civil date and a time of day.
DateInput(c, ms, tz) ==
    [kind |-> "date", civil |-> c, text |-> <<>>,
     instant |-> AddMs([day |-> DaysFromCivil(c.y, c.m, c.d), ms |-> ms], -(tz * MsPerMinute))]

TextInput(c) ==
    [kind |-> "string", civil |-> c, text |-> IsoText(c.y, c.m, c.d),
     instant |-> [day |-> 0, ms |-> 0]]

NoInput == [kind |-> "none", civil |-> [y |-> 0, m |-> 0, d |-> 0], text |-> <<>>,
            instant |-> [day |-> 0, ms |-> 0]]
NoCycle == [month |-> 0, year |-> 0, startDate |-> <<>>, endDate |-> <<>>]
NoOther == [y |-> 0, m |-> 0, startIn |-> FALSE, endIn |-> FALSE]

IdleBilling ==
    /\ bcTz = 0
    /\ bcPc = "idle"
    /\ bcInput = NoInput
    /\ bcCycle = NoCycle
    /\ bcIn = FALSE
    /\ bcOther = NoOther

InitBilling ==
    /\ bcTz \in TzOffsets
    /\ bcPc = "idle"
    /\ bcInput = NoInput
    /\ bcCycle = NoCycle
    /\ bcIn = FALSE
    /\ bcOther = NoOther

\* getBillingCycleForDate(input), then isDateInBillingCycle of the same date.
BillingCycleOf(input) ==
    /\ bcInput' = input
    /\ LET c == GetBillingCycleForDate(input, bcTz)
       IN /\ bcCycle' = c
          /\ bcIn' = IsDateInBillingCycle(input, c.startDate, c.endDate, bcTz)
    /\ bcOther' = NoOther
    /\ bcPc' = "computed"
    /\ UNCHANGED bcTz
    /\ UNCHANGED OtherThanBilling

BillingForDate ==
    /\ bcPc = "idle"
    /\ \E c \in CivilDates, ms \in TimesOfDay :
         /\ c.d <= DaysInMonth(c.y, c.m)
         /\ BillingCycleOf(DateInput(c, ms, bcTz))

BillingForText ==
    /\ bcPc = "idle"
    /\ \E c \in CivilDates :
         /\ c.d <= DaysInMonth(c.y, c.m)
         /\ BillingCycleOf(TextInput(c))

\* isDateInBillingCycle(x, c.startDate, c.endDate) for x the start and the end
\* date of the cycle of another month.
BillingOtherMonth ==
    /\ bcPc = "computed"
    /\ \E y \in FirstYear..LastYear, m \in 1..12 :
         /\ <<y, m>> # <<bcInput.civil.y, bcInput.civil.m>>
         /\ LET oc == GetBillingCycleForDate(DateInput([y |-> y, m |-> m, d |-> 1], 0, bcTz), bcTz)
            IN bcOther' =
                 [y |-> y, m |-> m,
                  startIn |-> IsDateInBillingCycle([kind |-> "string", text |-> oc.startDate],
                                                   bcCycle.startDate, bcCycle.endDate, bcTz),
                  endIn |-> IsDateInBillingCycle([kind |-> "string", text |-> oc.endDate],
                                                 bcCycle.startDate, bcCycle.endDate, bcTz)]
    /\ bcPc' = "compared"
    /\ UNCHANGED <<bcTz, bcInput, bcCycle, bcIn>>
    /\ UNCHANGED OtherThanBilling

BillingReturn ==
    /\ bcPc \in {"computed", "compared"}
    /\ bcPc' = "idle"
    /\ bcInput' = NoInput
    /\ bcCycle' = NoCycle
    /\ bcIn' = FALSE
    /\ bcOther' = NoOther
    /\ UNCHANGED bcTz
    /\ UNCHANGED OtherThanBilling

NextBilling == BillingForDate \/ BillingForText \/ BillingOtherMonth \/ BillingReturn

(***************************************************************************)
(*                        EMPLOYEE CSV EXPORTS                             *)
(* A text is a sequence of pieces: the characters the escaping looks for   *)
(* (comma, double quote, newline) and runs of other characters.            *)
(***************************************************************************)

\* The most employees on the page.
MaxEmployees == 2

Comma == ","
Quote == "\""
Newline == "\n"

Includes(text, c) == \E i \in 1..Len(text) : text[i] = c

\* cellValue.replace(/"/g, '""')
RECURSIVE DoubleQuotes(_)
DoubleQuotes(text) ==
    IF text = <<>> THEN <<>>
    ELSE (IF Head(text) = Quote THEN <<Quote, Quote>> ELSE <<Head(text)>>) \o DoubleQuotes(Tail(text))

\* A variant of the escaping below that does not look for newlines.
EscapeCellNoNewline(cell) ==
    IF Includes(cell, Comma) \/ Includes(cell, Quote)
    THEN <<Quote>> \o DoubleQuotes(cell) \o <<Quote>>
    ELSE cell

\* The escaping of one cell, the same in both exports.
EscapeCell(cell) ==
    IF Includes(cell, Comma) \/ Includes(cell, Quote) \/ Includes(cell, Newline)
    THEN <<Quote>> \o DoubleQuotes(cell) \o <<Quote>>
    ELSE cell

\* texts.join(sep)
RECURSIVE Join(_, _)
Join(texts, sep) ==
    IF texts = <<>> THEN <<>>
    ELSE IF Len(texts) = 1 THEN texts[1]
    ELSE texts[1] \o <<sep>> \o Join(Tail(texts), sep)

\* [headers.join(','), ...rows.map(row => row.map(escape).join(','))].join('\n')
CsvText(headers, rows) ==
    Join(<<Join(headers, Comma)>>
         \o [i \in 1..Len(rows) |-> Join([j \in 1..Len(rows[i]) |-> EscapeCell(rows[i][j])], Comma)],
         Newline)

\* formatDate(iso) of the admin page: a dash for no date, else 'Jan 5, 2024'.
FormatShortDate(iso) == IF iso = "null" THEN <<"-">> ELSE <<"Jan 5", Comma, " 2024">>

ROLE_LABELS(role) ==
    CASE role = "Admin" -> <<"Admin">>
      [] role = "FrontDesk" -> <<"Front Desk">>
      [] role = "ClinicalTeam" -> <<"Clinical Team">>
      [] role = "Physiotherapist" -> <<"Physiotherapist">>
      [] role = "StrengthAndConditioning" -> <<"Strength & Conditioning">>
      [] OTHER -> <<>>

ExportHeaders == <<<<"Name">>, <<"Email">>, <<"Role">>, <<"Status">>, <<"Created Date">>>>

DetailsHeaders ==
    <<<<"Name">>, <<"Email">>, <<"Role">>, <<"Status">>, <<"Phone">>, <<"Address">>,
      <<"Date of Birth">>, <<"Date of Joining">>, <<"Gender">>, <<"Blood Group">>,
      <<"Emergency Contact">>, <<"Emergency Phone">>, <<"Qualifications">>,
      <<"Specialization">>, <<"Experience">>, <<"Professional Aim">>, <<"Created Date">>,
      <<"Deleted">>, <<"Deleted Date">>>>

ExportRow(e) ==
    <<e.userName, e.userEmail, ROLE_LABELS(e.role), e.status, FormatShortDate(e.createdAt)>>

DetailsRow(e) ==
    <<e.userName, e.userEmail, ROLE_LABELS(e.role), e.status, e.phone, e.address,
      e.dateOfBirth, e.dateOfJoining, e.gender, e.bloodGroup, e.emergencyContact,
      e.emergencyPhone, e.qualifications, e.specialization, e.experience, e.professionalAim,
      FormatShortDate(e.createdAt),
      IF e.deleted THEN <<"Yes">> ELSE <<"No">>,
      IF e.deletedAt # "null" THEN FormatShortDate(e.deletedAt) ELSE <<>>>>

\* filteredEmployees, with an empty search and the role filter 'all'.
FilteredEmployees(list, showDeleted) ==
    LET keep(e) == IF showDeleted THEN e.deleted ELSE ~e.deleted
    IN SelectSeq(list, keep)

\* The names tried: empty, plain, and with each character the escaping looks for.
EmployeeNames ==
    {<<>>, <<"a">>, <<"a", Comma, "b">>, <<Quote>>, <<"a", Quote, "b", Quote>>,
     <<"a", Newline, "b">>, <<Comma, Quote, Newline>>, <<Quote, Quote>>}

\* An employee with only the required fields, and one with a filled profile
\* that was removed.
PlainEmployee(name) ==
    [userName |-> name, userEmail |-> <<"e@x">>, role |-> "FrontDesk", status |-> <<"Active">>,
     createdAt |-> "null", deleted |-> FALSE, deletedAt |-> "null",
     phone |-> <<>>, address |-> <<>>, dateOfBirth |-> <<>>, dateOfJoining |-> <<>>,
     gender |-> <<>>, bloodGroup |-> <<>>, emergencyContact |-> <<>>, emergencyPhone |-> <<>>,
     qualifications |-> <<>>, specialization |-> <<>>, experience |-> <<>>, professionalAim |-> <<>>]

RichEmployee(name) ==
    [PlainEmployee(name) EXCEPT
        !.role = "StrengthAndConditioning", !.status = <<"Inactive">>,
        !.createdAt = "date", !.deleted = TRUE, !.deletedAt = "date",
        !.phone = <<"+91 1">>, !.address = <<"1 Main St", Comma, Newline, Quote, "B", Quote>>,
        !.qualifications = <<"BPT", Comma, " MPT">>, !.professionalAim = <<"Aim", Newline>>]

EmployeeLists ==
    UNION {[1..n -> {PlainEmployee(x) : x \in EmployeeNames} \cup {RichEmployee(x) : x \in EmployeeNames}] :
              n \in 0..MaxEmployees}

IdleCsv ==
    /\ csvEmployees = <<>>
    /\ csvShowDeleted = FALSE
    /\ csvPc = "idle"
    /\ csvRows = <<>>
    /\ csvHeaders = <<>>
    /\ csvContent = <<>>

InitCsv ==
    /\ csvEmployees \in EmployeeLists
    /\ csvShowDeleted \in BOOLEAN
    /\ csvPc = "idle"
    /\ csvRows = <<>>
    /\ csvHeaders = <<>>
    /\ csvContent = <<>>

\* The Export CSV button is disabled when no employee is listed.
HandleExportCSV ==
    /\ csvPc = "idle"
    /\ FilteredEmployees(csvEmployees, csvShowDeleted) # <<>>
    /\ LET list == FilteredEmployees(csvEmployees, csvShowDeleted)
           rows == [i \in 1..Len(list) |-> ExportRow(list[i])]
       IN /\ csvRows' = rows
          /\ csvHeaders' = ExportHeaders
          /\ csvContent' = CsvText(ExportHeaders, rows)
    /\ csvPc' = "export"
    /\ UNCHANGED <<csvEmployees, csvShowDeleted>>
    /\ UNCHANGED OtherThanCsv

HandleExportEmployeeDetailsCSV ==
    /\ csvPc = "idle"
    /\ LET rows == [i \in 1..Len(csvEmployees) |-> DetailsRow(csvEmployees[i])]
       IN /\ csvRows' = rows
          /\ csvHeaders' = DetailsHeaders
          /\ csvContent' = CsvText(DetailsHeaders, rows)
    /\ csvPc' = "details"
    /\ UNCHANGED <<csvEmployees, csvShowDeleted>>
    /\ UNCHANGED OtherThanCsv

\* The file is downloaded.
CsvDownloaded ==
    /\ csvPc \in {"export", "details"}
    /\ csvPc' = "idle"
    /\ csvRows' = <<>>
    /\ csvHeaders' = <<>>
    /\ csvContent' = <<>>
    /\ UNCHANGED <<csvEmployees, csvShowDeleted>>
    /\ UNCHANGED OtherThanCsv

\* The Past Employees toggle.
CsvToggleDeleted ==
    /\ csvPc = "idle"
    /\ csvShowDeleted' = ~csvShowDeleted
    /\ UNCHANGED <<csvEmployees, csvPc, csvRows, csvHeaders, csvContent>>
    /\ UNCHANGED OtherThanCsv

NextCsv == HandleExportCSV \/ HandleExportEmployeeDetailsCSV \/ CsvDownloaded \/ CsvToggleDeleted

(***************************************************************************)
(*                    EMPLOYEE FORM OF THE ADMIN PAGE                      *)
(***************************************************************************)

\* The most Firestore writes attempted in one run.
MaxWrites == 2

MinEmployeePassword == 6

\* editingEmployee === null
NullEmployee == [id |-> 0, userName |-> <<>>, userEmail |-> <<>>]

INITIAL_FORM == [userName |-> <<>>, userEmail |-> <<>>, password |-> <<>>]

\* What can stand in the form's inputs.
FormNames == {<<>>, <<" ">>, <<"a">>, <<" ", "a", " ">>}
FormEmails == {<<>>, <<" ", " ">>, <<"e">>}
FormPasswords == {<<>>, <<" ">>, Rep("p", MinEmployeePassword - 1), Rep("p", MinEmployeePassword),
                  <<" ", " ">> \o Rep("p", MinEmployeePassword - 2),
                  <<" ">> \o Rep("p", MinEmployeePassword)}

\* The employees of the list that can be edited; a staff document without
\* userEmail is listed with an empty email.
ListedEmployees == {[id |-> 1, userName |-> <<"a">>, userEmail |-> <<"e">>],
                    [id |-> 2, userName |-> <<"b">>, userEmail |-> <<>>]}

InitUsers ==
    /\ isDialogOpen = FALSE
    /\ editingEmployee = NullEmployee
    /\ formState = INITIAL_FORM
    /\ saving = FALSE
    /\ error = "null"
    /\ usrPending = "none"
    /\ usrWrites = 0
    /\ usrLast = [handler |-> "none", writes |-> 0]

IdleUsers == InitUsers

OpenCreateDialog ==
    /\ editingEmployee' = NullEmployee
    /\ formState' = INITIAL_FORM
    /\ isDialogOpen' = TRUE
    /\ error' = "null"
    /\ usrLast' = [handler |-> "openCreateDialog", writes |-> usrWrites]
    /\ UNCHANGED <<saving, usrPending, usrWrites>>
    /\ UNCHANGED OtherThanUsers

OpenEditDialog ==
    /\ \E e \in ListedEmployees :
         /\ editingEmployee' = e
         /\ formState' = [userName |-> e.userName, userEmail |-> e.userEmail, password |-> <<>>]
    /\ isDialogOpen' = TRUE
    /\ error' = "null"
    /\ usrLast' = [handler |-> "openEditDialog", writes |-> usrWrites]
    /\ UNCHANGED <<saving, usrPending, usrWrites>>
    /\ UNCHANGED OtherThanUsers

\* closeDialog(), as the handlers call it.
CloseDialogEffect ==
    /\ isDialogOpen' = FALSE
    /\ editingEmployee' = NullEmployee
    /\ formState' = INITIAL_FORM

\* The backdrop and the close button call closeDialog at any time.
CloseDialog ==
    /\ isDialogOpen
    /\ CloseDialogEffect
    /\ usrLast' = [handler |-> "closeDialog", writes |-> usrWrites]
    /\ UNCHANGED <<saving, error, usrPending, usrWrites>>
    /\ UNCHANGED OtherThanUsers

\* Typing into the form; the email input is disabled while editing and the
\* password input exists only for a new employee.
EditForm ==
    /\ isDialogOpen
    /\ \E n \in FormNames, m \in FormEmails, p \in FormPasswords :
         formState' = [userName |-> n,
                       userEmail |-> IF editingEmployee = NullEmployee THEN m ELSE formState.userEmail,
                       password |-> IF editingEmployee = NullEmployee THEN p ELSE formState.password]
    /\ formState' # formState
    /\ usrLast' = [handler |-> "setFormState", writes |-> usrWrites]
    /\ UNCHANGED <<isDialogOpen, editingEmployee, saving, error, usrPending, usrWrites>>
    /\ UNCHANGED OtherThanUsers

\* A variant of the validation below that tests the untrimmed inputs.
SubmitInvalidUntrimmed(form, editing) ==
    IF form.userName = <<>> \/ form.userEmail = <<>> THEN "required"
    ELSE IF editing = NullEmployee /\ form.password # <<>> /\ Len(form.password) < MinEmployeePassword
    THEN "password"
    ELSE "null"

\* The validation of handleSubmit: the message it sets, "null" for none.
SubmitInvalid(form, editing) ==
    LET trimmedName == Trim(form.userName)
        trimmedEmail == Trim(form.userEmail)
        trimmedPassword == Trim(form.password)
    IN IF trimmedName = <<>> \/ trimmedEmail = <<>> THEN "required"
       ELSE IF editing = NullEmployee /\ trimmedPassword # <<>>
               /\ Len(trimmedPassword) < MinEmployeePassword THEN "password"
       ELSE "null"

\* handleSubmit up to its await; the submit button is disabled while saving.
HandleSubmit ==
    /\ isDialogOpen /\ ~saving
    /\ usrWrites < MaxWrites
    /\ usrLast' = [handler |-> "handleSubmit", writes |-> usrWrites]
    /\ IF SubmitInvalid(formState, editingEmployee) # "null"
       THEN /\ error' = SubmitInvalid(formState, editingEmployee)
            /\ UNCHANGED <<saving, usrPending, usrWrites>>
       ELSE /\ error' = "null"
            /\ saving' = TRUE
            /\ usrPending' = IF editingEmployee # NullEmployee THEN "updateDoc" ELSE "addDoc"
            /\ usrWrites' = usrWrites + 1
    /\ UNCHANGED <<isDialogOpen, editingEmployee, formState>>
    /\ UNCHANGED OtherThanUsers

\* The write succeeded: closeDialog(), then setSaving(false).
SubmitWriteResolved ==
    /\ usrPending # "none"
    /\ CloseDialogEffect
    /\ saving' = FALSE
    /\ usrPending' = "none"
    /\ usrLast' = [handler |-> "resolved", writes |-> usrWrites]
    /\ UNCHANGED <<error, usrWrites>>
    /\ UNCHANGED OtherThanUsers

\* The write failed: an error is set, the dialog stays, setSaving(false).
SubmitWriteRejected ==
    /\ usrPending # "none"
    /\ error' = IF usrPending = "addDoc" THEN "create failed" ELSE "save failed"
    /\ saving' = FALSE
    /\ usrPending' = "none"
    /\ usrLast' = [handler |-> "rejected", writes |-> usrWrites]
    /\ UNCHANGED <<isDialogOpen, editingEmployee, formState, usrWrites>>
    /\ UNCHANGED OtherThanUsers

NextUsers ==
    \/ OpenCreateDialog \/ OpenEditDialog \/ CloseDialog \/ EditForm
    \/ HandleSubmit \/ SubmitWriteResolved \/ SubmitWriteRejected

(***************************************************************************)
(*                 PATIENT PROGRESS ANALYTICS: loadData                    *)
(***************************************************************************)

\* The most reportVersions documents of one patient.
MaxReports == 3

\* A field of a document: a number, or anything that is not one.
Num(n) == [isNumber |-> TRUE, value |-> n]
NotNumber == [isNumber |-> FALSE, value |-> 0]

\* Stored createdAt Timestamps and the clock readings of a load, in
\* milliseconds; a clock may run behind a stored stamp.
StoredTimes == {1, 2, 3}
ClockTimes == {2, 4}

\* A reportVersions document as stored: version and createdAt may be absent.
StoredReports ==
    [version : {NotNumber, Num(1), Num(2)},
     createdAt : {NotNumber} \cup {Num(t) : t \in StoredTimes}]

RECURSIVE SeqsUpTo(_, _)
SeqsUpTo(S, n) ==
    IF n = 0 THEN {<<>>}
    ELSE LET shorter == SeqsUpTo(S, n - 1)
         IN shorter \cup {Append(q, x) : q \in {r \in shorter : Len(r) = n - 1}, x \in S}

\* The patients documents delivered for the patient: none, or the first one.
NoPatient == [empty |-> TRUE, totalSessionsRequired |-> NotNumber,
              remainingSessions |-> NotNumber, hasReportData |-> FALSE]
PatientSnapshots ==
    {NoPatient} \cup [empty : {FALSE}, totalSessionsRequired : {NotNumber, Num(2)},
                      remainingSessions : {NotNumber, Num(1)}, hasReportData : BOOLEAN]

NullInfo == [set |-> FALSE, totalSessions |-> NotNumber, remainingSessions |-> NotNumber]

\* docs.map(...): version || 0, and createdAt or else the clock.
ToReportVersion(data, now) ==
    [version |-> IF data.version.isNumber THEN data.version.value ELSE 0,
     createdAt |-> IF data.createdAt.isNumber THEN data.createdAt.value ELSE now]

\* A comparator that looks at the version alone.
CompareVersionOnly(a, b) == a.version - b.version

\* The comparator given to versions.sort.
CompareVersions(a, b) ==
    IF a.version # b.version THEN a.version - b.version
    ELSE a.createdAt - b.createdAt

\* Array.prototype.sort with that comparator: a stable sort.
SortVersions(versions) ==
    LET n == Len(versions)
        Before(i, j) == \/ CompareVersions(versions[i], versions[j]) < 0
                        \/ (CompareVersions(versions[i], versions[j]) = 0 /\ i < j)
        Place(i) == Cardinality({j \in 1..n : Before(j, i)}) + 1
    IN [r \in 1..n |-> versions[CHOOSE i \in 1..n : Place(i) = r]]

InitProgress ==
    /\ progPc = "idle"
    /\ progNow = 0
    /\ progDocs = <<>>
    /\ patientInfo = NullInfo
    /\ reportVersions = <<>>
    /\ progLoading = TRUE
    /\ progError = "null"

IdleProgress == InitProgress

\* The effect runs loadData for the patientId the component is mounted with.
LoadData ==
    /\ progPc = "idle"
    /\ progPc' = "patient"
    /\ progNow' \in ClockTimes
    /\ progDocs' = <<>>
    /\ progLoading' = TRUE
    /\ progError' = "null"
    /\ UNCHANGED <<patientInfo, reportVersions>>
    /\ UNCHANGED OtherThanProgress

PatientInfoResolved ==
    /\ progPc = "patient"
    /\ \E snapshot \in PatientSnapshots :
         patientInfo' = IF snapshot.empty THEN patientInfo
                        ELSE [set |-> TRUE, totalSessions |-> snapshot.totalSessionsRequired,
                              remainingSessions |-> snapshot.remainingSessions]
    /\ progPc' = "reports"
    /\ UNCHANGED <<progNow, progDocs, reportVersions, progLoading, progError>>
    /\ UNCHANGED OtherThanProgress

PatientInfoRejected ==
    /\ progPc = "patient"
    /\ progPc' = "reports"
    /\ UNCHANGED <<progNow, progDocs, patientInfo, reportVersions, progLoading, progError>>
    /\ UNCHANGED OtherThanProgress

\* The reportVersions query resolved: map, sort, and either set the list or,
\* when it is empty, go on to the patients collection.
ReportsResolved ==
    /\ progPc = "reports"
    /\ \E docs \in SeqsUpTo(StoredReports, MaxReports) :
         LET versions == SortVersions([i \in 1..Len(docs) |-> ToReportVersion(docs[i], progNow)])
         IN /\ progDocs' = docs
            /\ IF Len(versions) = 0
               THEN /\ progPc' = "fallback"
                    /\ UNCHANGED <<reportVersions, progLoading, progError>>
               ELSE /\ reportVersions' = versions
                    /\ progError' = "null"
                    /\ progLoading' = FALSE
                    /\ progPc' = "done"
    /\ UNCHANGED <<progNow, patientInfo>>
    /\ UNCHANGED OtherThanProgress

ReportsRejected ==
    /\ progPc = "reports"
    /\ progError' \in {"permission-denied", "failed-precondition", "other"}
    /\ reportVersions' = <<>>
    /\ progLoading' = FALSE
    /\ progPc' = "done"
    /\ UNCHANGED <<progNow, progDocs, patientInfo>>
    /\ UNCHANGED OtherThanProgress

\* The patients query of the empty case resolved.
FallbackResolved ==
    /\ progPc = "fallback"
    /\ \E snapshot \in PatientSnapshots :
         reportVersions' = IF ~snapshot.empty /\ snapshot.hasReportData
                           THEN <<[version |-> 1, createdAt |-> progNow]>>
                           ELSE <<>>
    /\ progError' = "null"
    /\ progLoading' = FALSE
    /\ progPc' = "done"
    /\ UNCHANGED <<progNow, progDocs, patientInfo>>
    /\ UNCHANGED OtherThanProgress

FallbackRejected ==
    /\ progPc = "fallback"
    /\ reportVersions' = <<>>
    /\ progError' = "null"
    /\ progLoading' = FALSE
    /\ progPc' = "done"
    /\ UNCHANGED <<progNow, progDocs, patientInfo>>
    /\ UNCHANGED OtherThanProgress

NextProgress ==
    \/ LoadData \/ PatientInfoResolved \/ PatientInfoRejected
    \/ ReportsResolved \/ ReportsRejected \/ FallbackResolved \/ FallbackRejected

(***************************************************************************)
(*               ANALYTICS SERVICE: fetchPatientAnalytics                  *)
(***************************************************************************)

\* The most reportVersions documents of one patient given to the service.
MaxHistory == 6

\* reportHistory.slice(-5)
SliceCount == 5

\* A stable sort of a sequence; less[i][j] tells whether the comparator puts
\* element i before element j.
StableSort(seq, less) ==
    LET n == Len(seq)
        Before(i, j) == less[i][j] \/ (~less[j][i] /\ i < j)
        Place(i) == Cardinality({j \in 1..n : Before(j, i)}) + 1
    IN [r \in 1..n |-> seq[CHOOSE i \in 1..n : Place(i) = r]]

\* A createdAt field as stored: a Timestamp, a date string, or absent.
Stamp(t) == [kind |-> "Timestamp", time |-> t]
DateText(t) == [kind |-> "string", time |-> t]
NoCreatedAt == [kind |-> "undefined", time |-> 0]

\* The documents tried.
AnalyticsReports ==
    {[version |-> Num(2), createdAt |-> Stamp(1)],
     [version |-> NotNumber, createdAt |-> Stamp(3)],
     [version |-> Num(3), createdAt |-> DateText(2)],
     [version |-> Num(1), createdAt |-> NoCreatedAt]}

\* Firestore's orderBy(field, 'asc'): documents without the field are left
\* out; values are ordered by type (a Timestamp before a string), then value.
OrderBy(field, docs) ==
    IF field = "createdAt"
    THEN LET has(d) == d.createdAt.kind # "undefined"
             rank(d) == IF d.createdAt.kind = "Timestamp" THEN 0 ELSE 1
             less(a, b) == \/ rank(a) < rank(b)
                           \/ (rank(a) = rank(b) /\ a.createdAt.time < b.createdAt.time)
             kept == SelectSeq(docs, has)
         IN StableSort(kept, [i \in 1..Len(kept) |-> [j \in 1..Len(kept) |-> less(kept[i], kept[j])]])
    ELSE IF field = "version"
    THEN LET has(d) == d.version.isNumber
             less(a, b) == a.version.value < b.version.value
             kept == SelectSeq(docs, has)
         IN StableSort(kept, [i \in 1..Len(kept) |-> [j \in 1..Len(kept) |-> less(kept[i], kept[j])]])
    ELSE docs

\* An ISO date string, and new Date(text).getTime().
ToISOString(t) == [iso |-> t]
GetTime(text) == text.iso

\* versionsSnapshot.docs.map(...): the fields posted.
ToHistoryEntry(data, now) ==
    [version |-> IF data.version.isNumber THEN data.version.value ELSE 0,
     createdAt |-> IF data.createdAt.kind = "undefined" THEN ToISOString(now)
                   ELSE ToISOString(data.createdAt.time)]

\* A variant of the check below that never asks for a sort.
IsSortedAlways(reportHistory) == TRUE

IsSorted(reportHistory) ==
    \A index \in 1..Len(reportHistory) :
       \/ index = 1
       \/ GetTime(reportHistory[index - 1].createdAt) <= GetTime(reportHistory[index].createdAt)

\* Steps 2 to 3.5: map, sort when not sorted, keep the last five.
LatestReports(snapshot, now) ==
    LET mapped == [i \in 1..Len(snapshot) |-> ToHistoryEntry(snapshot[i], now)]
        less(a, b) == IF GetTime(a.createdAt) # GetTime(b.createdAt)
                      THEN GetTime(a.createdAt) < GetTime(b.createdAt)
                      ELSE a.version < b.version
        m == Len(mapped)
        reportHistory ==
            IF IsSorted(mapped) THEN mapped
            ELSE StableSort(mapped, [i \in 1..m |-> [j \in 1..m |-> less(mapped[i], mapped[j])]])
        n == Len(reportHistory)
    IN IF n <= SliceCount THEN reportHistory ELSE SubSeq(reportHistory, n - SliceCount + 1, n)

InitAnalytics ==
    /\ anPc = "idle"
    /\ anNow = 0
    /\ anDocs = <<>>
    /\ anQueries = <<>>
    /\ anSnapshot = <<>>
    /\ anPosted = <<>>
    /\ anCodes = <<>>

IdleAnalytics == InitAnalytics

\* The call, up to its first await.
FetchPatientAnalytics ==
    /\ anPc = "idle"
    /\ \E hasPatientId \in BOOLEAN :
         IF hasPatientId
         THEN /\ anPc' = "query createdAt"
              /\ anQueries' = <<"createdAt">>
              /\ anDocs' \in SeqsUpTo(AnalyticsReports, MaxHistory)
              /\ anNow' \in ClockTimes
         ELSE /\ anPc' = "thrown"
              /\ UNCHANGED <<anQueries, anDocs, anNow>>
    /\ UNCHANGED <<anSnapshot, anPosted, anCodes>>
    /\ UNCHANGED OtherThanAnalytics

\* A query resolved: an empty history throws, any other is posted.
QueryResolved ==
    /\ anPc \in {"query createdAt", "query version", "query none"}
    /\ anSnapshot' = OrderBy(anQueries[Len(anQueries)], anDocs)
    /\ IF Len(anSnapshot') = 0
       THEN anPc' = "thrown" /\ UNCHANGED anPosted
       ELSE anPc' = "fetch" /\ anPosted' = Append(anPosted, LatestReports(anSnapshot', anNow))
    /\ UNCHANGED <<anNow, anDocs, anQueries, anCodes>>
    /\ UNCHANGED OtherThanAnalytics

\* Error codes a query may reject with.
QueryErrorCodes == {"failed-precondition", "permission-denied"}

\* Catch blocks that fall back whatever the code is.
NextQueryAnyCode(pc, code) ==
    IF pc = "query createdAt" THEN "version"
    ELSE IF pc = "query version" THEN "none"
    ELSE "rethrow"

\* The catch blocks: the orderBy field of the query tried next, or
\* "rethrow".  The unordered query is awaited outside any try.
NextQuery(pc, code) ==
    IF code = "failed-precondition" /\ pc = "query createdAt" THEN "version"
    ELSE IF code = "failed-precondition" /\ pc = "query version" THEN "none"
    ELSE "rethrow"

\* A query rejected: failed-precondition moves to the next query, if any.
QueryRejected ==
    /\ anPc \in {"query createdAt", "query version", "query none"}
    /\ \E code \in QueryErrorCodes :
         /\ anCodes' = Append(anCodes, code)
         /\ IF NextQuery(anPc, code) = "rethrow"
            THEN anPc' = "thrown" /\ UNCHANGED anQueries
            ELSE /\ anPc' = IF NextQuery(anPc, code) = "version" THEN "query version"
                             ELSE "query none"
                 /\ anQueries' = Append(anQueries, NextQuery(anPc, code))
    /\ UNCHANGED <<anNow, anDocs, anSnapshot, anPosted>>
    /\ UNCHANGED OtherThanAnalytics

\* The POST settled: the data is returned, or an Error is thrown.
FetchSettled ==
    /\ anPc = "fetch"
    /\ \E outcome \in {"ok with data", "ok without data", "not ok", "rejected"} :
         anPc' = IF outcome = "ok with data" THEN "returned" ELSE "thrown"
    /\ UNCHANGED <<anNow, anDocs, anQueries, anSnapshot, anPosted, anCodes>>
    /\ UNCHANGED OtherThanAnalytics

NextAnalytics == FetchPatientAnalytics \/ QueryResolved \/ QueryRejected \/ FetchSettled

(***************************************************************************)
(*                   EMPLOYEE LIST OF THE ADMIN PAGE                       *)
(***************************************************************************)

\* The most documents in the staff collection.
MaxStaff == 2

\* Staff documents as stored; "undefined" stands for an absent field.
StoredStaff ==
    {[userName |-> "b", userEmail |-> "b@x", role |-> "FrontDesk", status |-> "Active",
      deleted |-> "undefined", deletedAt |-> "undefined"],
     [userName |-> "a", userEmail |-> "a@x", role |-> "Admin", status |-> "Active",
      deleted |-> "undefined", deletedAt |-> "undefined"],
     [userName |-> "a", userEmail |-> "a@x", role |-> "Physiotherapist", status |-> "Inactive",
      deleted |-> "true", deletedAt |-> "Timestamp"],
     [userName |-> "b", userEmail |-> "b@x", role |-> "Manager", status |-> "Active",
      deleted |-> "false", deletedAt |-> "undefined"],
     [userName |-> "undefined", userEmail |-> "undefined", role |-> "undefined",
      status |-> "undefined", deleted |-> "undefined", deletedAt |-> "undefined"],
     [userName |-> "a", userEmail |-> "c@x", role |-> "StrengthAndConditioning",
      status |-> "Inactive", deleted |-> "undefined", deletedAt |-> "undefined"]}

\* The roles the snapshot handler's filter lets through.
ListedRoles == {"FrontDesk", "ClinicalTeam", "Physiotherapist", "StrengthAndConditioning"}

\* An update that also blanks the email.
DeleteUpdateWiping(data) ==
    [data EXCEPT !.deleted = "true", !.deletedAt = "Timestamp", !.status = "Inactive",
                 !.userEmail = "undefined"]

\* handleDelete's update: what updateDoc writes into a document.
DeleteUpdate(data) ==
    [data EXCEPT !.deleted = "true", !.deletedAt = "Timestamp", !.status = "Inactive"]

\* The snapshot handler: map each document, keep the listed roles, sort by name.
StaffRecords(docs) ==
    LET record(id) ==
            [id |-> id,
             userName |-> IF docs[id].userName = "undefined" THEN "" ELSE docs[id].userName,
             userEmail |-> IF docs[id].userEmail = "undefined" THEN "" ELSE docs[id].userEmail,
             role |-> IF docs[id].role = "undefined" THEN "FrontDesk" ELSE docs[id].role,
             status |-> IF docs[id].status = "undefined" THEN "Active" ELSE docs[id].status,
             deleted |-> docs[id].deleted = "true",
             deletedAt |-> IF docs[id].deletedAt = "Timestamp" THEN "date" ELSE "null"]
        mapped == [id \in 1..Len(docs) |-> record(id)]
        listed(r) == r.role \in ListedRoles
        kept == SelectSeq(mapped, listed)
        rank(name) == IF name = "" THEN 0 ELSE IF name = "a" THEN 1 ELSE 2
    IN StableSort(kept, [i \in 1..Len(kept) |->
                           [j \in 1..Len(kept) |-> rank(kept[i].userName) < rank(kept[j].userName)]])

NothingRemoved == [handler |-> "none", id |-> 0, docs |-> <<>>, removed |-> {}]

IdleStaff ==
    /\ staffDocs = <<>>
    /\ staffListening = TRUE
    /\ employees = <<>>
    /\ showDeletedEmployees = FALSE
    /\ delPending = 0
    /\ staffLast = NothingRemoved

InitStaff ==
    /\ staffDocs \in UNION {[1..n -> StoredStaff] : n \in 0..MaxStaff}
    /\ staffListening = TRUE
    /\ employees = <<>>
    /\ showDeletedEmployees = FALSE
    /\ delPending = 0
    /\ staffLast = [NothingRemoved EXCEPT !.docs = staffDocs]
    /\ saving = FALSE
    /\ error = "null"
    /\ isDialogOpen = FALSE /\ editingEmployee = NullEmployee /\ formState = INITIAL_FORM
    /\ usrPending = "none" /\ usrWrites = 0 /\ usrLast = [handler |-> "none", writes |-> 0]

\* onSnapshot delivers the collection.
StaffSnapshot ==
    /\ staffListening
    /\ employees' = StaffRecords(staffDocs)
    /\ staffLast' = [staffLast EXCEPT !.handler = "snapshot", !.id = 0, !.docs = staffDocs]
    /\ UNCHANGED <<staffDocs, staffListening, showDeletedEmployees, delPending, saving, error>>
    /\ UNCHANGED OtherThanStaff

\* onSnapshot's error callback; the subscription has ended.
StaffSnapshotError ==
    /\ staffListening
    /\ staffListening' = FALSE
    /\ error' = "load failed"
    /\ staffLast' = [staffLast EXCEPT !.handler = "snapshot error", !.id = 0, !.docs = staffDocs]
    /\ UNCHANGED <<staffDocs, employees, showDeletedEmployees, delPending, saving>>
    /\ UNCHANGED OtherThanStaff

ToggleDeletedEmployees ==
    /\ showDeletedEmployees' = ~showDeletedEmployees
    /\ staffLast' = [staffLast EXCEPT !.handler = "toggle", !.id = 0, !.docs = staffDocs]
    /\ UNCHANGED <<staffDocs, staffListening, employees, delPending, saving, error>>
    /\ UNCHANGED OtherThanStaff

\* handleDelete up to its await, from the Delete button of a listed active
\* employee; the button is disabled while saving.
HandleDelete ==
    /\ ~showDeletedEmployees /\ ~saving
    /\ \E i \in 1..Len(employees), confirmed \in BOOLEAN :
         /\ ~employees[i].deleted
         /\ IF ~confirmed
            THEN /\ staffLast' = [staffLast EXCEPT !.handler = "declined", !.id = employees[i].id,
                                                  !.docs = staffDocs]
                 /\ UNCHANGED <<delPending, saving, error>>
            ELSE /\ staffLast' = [staffLast EXCEPT !.handler = "confirmed", !.id = employees[i].id,
                                                  !.docs = staffDocs]
                 /\ delPending' = employees[i].id
                 /\ saving' = TRUE
                 /\ error' = "null"
    /\ UNCHANGED <<staffDocs, staffListening, employees, showDeletedEmployees>>
    /\ UNCHANGED OtherThanStaff

\* updateDoc resolved: the document carries the update; setSaving(false).
DeleteResolved ==
    /\ delPending # 0
    /\ staffDocs' = [staffDocs EXCEPT ![delPending] = DeleteUpdate(staffDocs[delPending])]
    /\ staffLast' = [handler |-> "resolved", id |-> delPending, docs |-> staffDocs,
                     removed |-> staffLast.removed \cup {delPending}]
    /\ delPending' = 0
    /\ saving' = FALSE
    /\ UNCHANGED <<staffListening, employees, showDeletedEmployees, error>>
    /\ UNCHANGED OtherThanStaff

\* updateDoc rejected: an error is shown; setSaving(false).
DeleteRejected ==
    /\ delPending # 0
    /\ error' = "remove failed"
    /\ staffLast' = [staffLast EXCEPT !.handler = "rejected", !.id = delPending, !.docs = staffDocs]
    /\ delPending' = 0
    /\ saving' = FALSE
    /\ UNCHANGED <<staffDocs, staffListening, employees, showDeletedEmployees>>
    /\ UNCHANGED OtherThanStaff

NextStaff ==
    \/ StaffSnapshot \/ StaffSnapshotError \/ ToggleDeletedEmployees
    \/ HandleDelete \/ DeleteResolved \/ DeleteRejected

(***************************************************************************)
(*                            useLocalStorage                              *)
(***************************************************************************)

\* The most setValue calls and key changes in one run.
MaxEvents == 2

LsKeys == {"k1", "k2"}
LsValues == {"initialValue", "A", "B"}

\* An item of the storage: absent (getItem gives null), the JSON text of a
\* value, or a text JSON.parse throws on.
NoItem == [kind |-> "null", value |-> "none"]
BadItem == [kind |-> "invalid", value |-> "none"]
Stringify(value) == [kind |-> "json", value |-> value]

\* A write effect that does not wait for hydration.
WriteAllowedAlways(hydrated) == TRUE

\* The guard of the write effect.
WriteAllowed(hydrated) == hydrated

InitLs ==
    /\ lsStore \in [LsKeys -> {NoItem, BadItem} \cup {Stringify(v) : v \in {"initialValue", "A"}}]
    /\ lsKey \in LsKeys
    /\ storedValue = "initialValue"
    /\ isHydrated = FALSE
    /\ lsEffects = {"read", "write"}
    /\ lsLog = <<>>
    /\ lsGhost = [key |-> lsKey, item |-> lsStore[lsKey], renders |-> 1, events |-> 0]

IdleLs ==
    /\ lsStore = [k \in LsKeys |-> NoItem]
    /\ lsKey = "k1"
    /\ storedValue = "initialValue"
    /\ isHydrated = FALSE
    /\ lsEffects = {}
    /\ lsLog = <<>>
    /\ lsGhost = [key |-> "k1", item |-> NoItem, renders |-> 1, events |-> 0]

\* The pending effects run in order with the values of their render, the
\* read effect before the write effect, and the queued state updates are
\* rendered.  Another effect of the same commit may call setValue, before
\* or after the hook's effects; setItem may throw.
LsRunEffects ==
    /\ lsEffects # {}
    /\ \E other \in {"none", "before", "after"}, value \in LsValues, writeThrows \in BOOLEAN :
         /\ other # "none" => lsGhost.events < MaxEvents
         /\ LET item == lsStore[lsKey]
                reads == "read" \in lsEffects
                parsed == reads /\ item.kind = "json"
                writes == "write" \in lsEffects /\ WriteAllowed(isHydrated)
                afterBefore == IF other = "before" THEN value ELSE storedValue
                afterRead == IF parsed THEN item.value ELSE afterBefore
                afterAll == IF other = "after" THEN value ELSE afterRead
                hydrated == isHydrated \/ reads
            IN /\ lsLog' = lsLog \o (IF reads THEN <<[op |-> "getItem", key |-> lsKey]>> ELSE <<>>)
                                 \o (IF writes THEN <<[op |-> "setItem", key |-> lsKey]>> ELSE <<>>)
               /\ lsStore' = IF writes /\ ~writeThrows
                             THEN [lsStore EXCEPT ![lsKey] = Stringify(storedValue)]
                             ELSE lsStore
               /\ writeThrows => writes
               /\ storedValue' = afterAll
               /\ isHydrated' = hydrated
               /\ lsEffects' = IF afterAll # storedValue \/ hydrated # isHydrated
                               THEN {"write"} ELSE {}
               /\ lsGhost' = [lsGhost EXCEPT
                                !.renders = IF lsEffects' # {} THEN 2 ELSE @,
                                !.events = IF other = "none" THEN @ ELSE @ + 1]
    /\ UNCHANGED lsKey
    /\ UNCHANGED OtherThanLs

\* setValue from an event handler; the effects of earlier renders have run.
LsSetValue ==
    /\ lsEffects = {}
    /\ lsGhost.events < MaxEvents
    /\ \E value \in LsValues :
         /\ storedValue' = value
         /\ lsEffects' = IF value # storedValue THEN {"write"} ELSE {}
    /\ lsGhost' = [lsGhost EXCEPT !.events = @ + 1, !.renders = 2]
    /\ UNCHANGED <<lsStore, lsKey, isHydrated, lsLog>>
    /\ UNCHANGED OtherThanLs

\* The hook is rendered with another key: both effects have key as a dependency.
LsChangeKey ==
    /\ lsEffects = {}
    /\ lsGhost.events < MaxEvents
    /\ \E key \in LsKeys \ {lsKey} : lsKey' = key
    /\ lsEffects' = {"read", "write"}
    /\ lsGhost' = [lsGhost EXCEPT !.events = @ + 1, !.renders = 2]
    /\ UNCHANGED <<lsStore, storedValue, isHydrated, lsLog>>
    /\ UNCHANGED OtherThanLs

NextLs == LsRunEffects \/ LsSetValue \/ LsChangeKey

(***************************************************************************)
(*                       LeaveRequestNotification                          *)
(***************************************************************************)

\* The most changes of the requests and of the signed-in user in one run.
MaxLeaveEvents == 3

\* The ids of the leave requests, and the values of Date.now() (milliseconds
\* counted from the first one read).
LeaveIds == {1, 2}
LeaveClock == {0, 1, 2}

\* approvalRequestedToEmail of a pending request; "absent" when the request
\* is not pending or does not exist, "" when the field is empty or missing.
LeaveEmails == {"absent", "", "A@x", "b@x"}

ToLowerCase(email) == IF email = "A@x" THEN "a@x" ELSE email

\* The ids the snapshot handler collects for an admin.
CurrentRequestIds(docs, adminEmail) ==
    {id \in DOMAIN docs : /\ docs[id] # "absent"
                          /\ ToLowerCase(docs[id]) = adminEmail
                          /\ ToLowerCase(docs[id]) # ""}

\* newRequests: the collected ids that previousRequestIds does not have.
NewRequestIds(current, previous) == current \ previous

\* A set of ids in document order.
RECURSIVE InOrder(_)
InOrder(ids) ==
    IF ids = {} THEN <<>>
    ELSE LET least == CHOOSE i \in ids : \A j \in ids : i <= j
         IN <<least>> \o InOrder(ids \ {least})

NoSubscription == [handler |-> "none", added |-> <<>>, delivered |-> 0, previous |-> {},
                   events |-> 0]

InitLr ==
    /\ lrDocs \in [LeaveIds -> LeaveEmails]
    /\ lrUser \in {"null", "a@x", "b@x"}
    /\ lrNow = 0
    /\ pendingCount = 0
    /\ previousRequestIds = {}
    /\ hasInitialized = FALSE
    /\ toasts = <<>>
    /\ lrTimers = {}
    /\ lrGhost = NoSubscription

IdleLr ==
    /\ lrDocs = [id \in LeaveIds |-> "absent"]
    /\ lrUser = "null"
    /\ lrNow = 0
    /\ pendingCount = 0
    /\ previousRequestIds = {}
    /\ hasInitialized = FALSE
    /\ toasts = <<>>
    /\ lrTimers = {}
    /\ lrGhost = NoSubscription

\* The effect's cleanup and re-run for another user object: unsubscribe, and
\* subscribe again when the user has an email.  The refs are not touched.
LrUserChanged ==
    /\ lrGhost.events < MaxLeaveEvents
    /\ lrUser' \in {"null", "a@x", "b@x"}
    /\ lrGhost' = [handler |-> "user", added |-> <<>>, delivered |-> 0, previous |-> {},
                   events |-> lrGhost.events + 1]
    /\ UNCHANGED <<lrDocs, lrNow, pendingCount, previousRequestIds, hasInitialized, toasts,
                   lrTimers>>
    /\ UNCHANGED OtherThanLr

\* A leave request becomes pending, stops being pending or is readdressed.
LrRequestChanged ==
    /\ lrGhost.events < MaxLeaveEvents
    /\ \E id \in LeaveIds, email \in LeaveEmails :
         /\ email # lrDocs[id]
         /\ lrDocs' = [lrDocs EXCEPT ![id] = email]
    /\ lrGhost' = [lrGhost EXCEPT !.handler = "request", !.added = <<>>, !.events = @ + 1]
    /\ UNCHANGED <<lrUser, lrNow, pendingCount, previousRequestIds, hasInitialized, toasts,
                   lrTimers>>
    /\ UNCHANGED OtherThanLr

\* The subscription delivers the pending requests; the clock may have moved.
LrSnapshot ==
    /\ lrUser # "null"
    /\ lrNow' \in {lrNow, lrNow + 1}
    /\ lrNow' \in LeaveClock
    /\ LET currentRequestIds == CurrentRequestIds(lrDocs, ToLowerCase(lrUser))
           newRequests == IF hasInitialized
                          THEN InOrder(NewRequestIds(currentRequestIds, previousRequestIds))
                          ELSE <<>>
           added == [i \in 1..Len(newRequests) |->
                       [id |-> <<newRequests[i], lrNow'>>, leaveRequestId |-> newRequests[i]]]
       IN /\ pendingCount' = Cardinality(currentRequestIds)
          /\ toasts' = toasts \o added
          /\ lrTimers' = lrTimers \cup {added[i].id : i \in 1..Len(added)}
          /\ previousRequestIds' = currentRequestIds
          /\ hasInitialized' = TRUE
          /\ lrGhost' = [lrGhost EXCEPT !.handler = "snapshot",
                            !.added = [i \in 1..Len(added) |-> added[i].leaveRequestId],
                            !.delivered = IF @ = 0 THEN 1 ELSE 2,
                            !.previous = IF lrGhost.delivered = 0 THEN {}
                                         ELSE previousRequestIds]
    /\ UNCHANGED <<lrDocs, lrUser>>
    /\ UNCHANGED OtherThanLr

\* A filter that also drops the toasts after the first one it removes.
WithoutToastTruncating(list, toastId) ==
    LET hits == {i \in 1..Len(list) : list[i].id = toastId}
    IN IF hits = {} THEN list
       ELSE SubSeq(list, 1, (CHOOSE i \in hits : \A j \in hits : i <= j) - 1)

\* prev.filter(t => t.id !== toastId)
WithoutToast(list, toastId) ==
    LET keep(t) == t.id # toastId IN SelectSeq(list, keep)

\* The timer of a toast fires after 8 seconds.
LrTimerFires ==
    /\ \E id \in lrTimers :
         /\ lrTimers' = lrTimers \ {id}
         /\ toasts' = WithoutToast(toasts, id)
    /\ lrGhost' = [lrGhost EXCEPT !.handler = "timer", !.added = <<>>]
    /\ UNCHANGED <<lrDocs, lrUser, lrNow, pendingCount, previousRequestIds, hasInitialized>>
    /\ UNCHANGED OtherThanLr

\* removeToast, from the close button or from a click on the toast.
RemoveToast ==
    /\ \E i \in 1..Len(toasts) :
         toasts' = WithoutToast(toasts, toasts[i].id)
    /\ lrGhost' = [lrGhost EXCEPT !.handler = "remove", !.added = <<>>]
    /\ UNCHANGED <<lrDocs, lrUser, lrNow, pendingCount, previousRequestIds, hasInitialized,
                   lrTimers>>
    /\ UNCHANGED OtherThanLr

NextLr == LrUserChanged \/ LrRequestChanged \/ LrSnapshot \/ LrTimerFires \/ RemoveToast

(***************************************************************************)
(*                         handleLogout (sidebar)                          *)
(***************************************************************************)

\* The most invocations of handleLogout in one run.
MaxLogouts == 3

\* A finally block in which a throwing removeItem skips the redirect.
LogoutFinallyUnguarded(inv, removeThrows) ==
    IF removeThrows THEN <<[inv |-> inv, op |-> "removeItem"]>>
    ELSE <<[inv |-> inv, op |-> "removeItem"], [inv |-> inv, op |-> "replace /login"]>>

\* The finally block: removeItem inside its own try/catch, then router.replace.
LogoutFinally(inv, removeThrows) ==
    <<[inv |-> inv, op |-> "removeItem"], [inv |-> inv, op |-> "replace /login"]>>

InitLo ==
    /\ loPc = [inv \in 1..MaxLogouts |-> "idle"]
    /\ loCurrentUser \in BOOLEAN
    /\ loLog = <<>>

IdleLo ==
    /\ loPc = [inv \in 1..MaxLogouts |-> "idle"]
    /\ loCurrentUser = FALSE
    /\ loLog = <<>>

\* handleLogout up to its await; without auth it runs through.
HandleLogout ==
    \E inv \in 1..MaxLogouts, hasAuth \in BOOLEAN, removeThrows \in BOOLEAN :
      /\ loPc[inv] = "idle"
      /\ \A earlier \in 1..(inv - 1) : loPc[earlier] # "idle"
      /\ IF hasAuth
         THEN /\ loPc' = [loPc EXCEPT ![inv] = "signOut"]
              /\ loLog' = Append(loLog, [inv |-> inv, op |-> "signOut"])
              /\ ~removeThrows
              /\ UNCHANGED loCurrentUser
         ELSE /\ loPc' = [loPc EXCEPT ![inv] = "done"]
              /\ loLog' = loLog \o LogoutFinally(inv, removeThrows)
              /\ loCurrentUser' = (loCurrentUser /\ removeThrows)
      /\ UNCHANGED OtherThanLo

\* signOut resolved or rejected: the catch swallows, finally runs.
SignOutSettled ==
    \E inv \in 1..MaxLogouts, outcome \in {"resolved", "rejected"}, removeThrows \in BOOLEAN :
      /\ loPc[inv] = "signOut"
      /\ loPc' = [loPc EXCEPT ![inv] = "done"]
      /\ loLog' = Append(loLog, [inv |-> inv, op |-> outcome]) \o LogoutFinally(inv, removeThrows)
      /\ loCurrentUser' = (loCurrentUser /\ removeThrows)
      /\ UNCHANGED OtherThanLo

NextLo == HandleLogout \/ SignOutSettled

(***************************************************************************)
(*     BILLING CYCLE TOTALS: updateCycleTotalAmount / ...ForDate           *)
(***************************************************************************)

\* The most billing-record writes in one run.
MaxRecordWrites == 1

\* The calls that may overlap, and the ids of the billing records.
CallIds == {1, 2}
RecordIds == {1, 2}

\* Dates are 'YYYY-MM-DD' texts, which Firestore orders as the days do: days
\* 2 and 3 are in the month of the cycle, day 1 before it and day 4 after.
CycleStart == 2
CycleEnd == 3

\* Billing records tried; amounts in hundredths.
NoRecord == [date |-> 0, status |-> "none", amount |-> [type |-> "undefined", cents |-> 0]]
BillingSamples ==
    {NoRecord,
     [date |-> 2, status |-> "Completed", amount |-> [type |-> "number", cents |-> 1050]],
     [date |-> 3, status |-> "Completed", amount |-> [type |-> "string", cents |-> 525]],
     [date |-> 2, status |-> "Pending", amount |-> [type |-> "number", cents |-> 300]],
     [date |-> 4, status |-> "Completed", amount |-> [type |-> "number", cents |-> 700]],
     [date |-> 3, status |-> "Completed", amount |-> [type |-> "text", cents |-> 0]],
     [date |-> 1, status |-> "Completed", amount |-> [type |-> "number", cents |-> -200]]}

\* The query of updateCycleTotalAmount and its forEach over the records
\* returned: the total in thousandths of a hundredth.
RECURSIVE SumCompleted(_, _, _, _)
SumCompleted(records, start, end, ids) ==
    IF ids = {} THEN 0
    ELSE LET id == CHOOSE i \in ids : \A j \in ids : i <= j
             data == records[id]
             inRange == data # NoRecord /\ data.date >= start /\ data.date <= end
             counts == /\ inRange /\ data.status = "Completed"
                       /\ data.amount.type \in {"number", "string", "text"}
                       /\ ~(data.amount.type = "number" /\ data.amount.cents = 0)
             number == IF data.amount.type = "text" THEN 0 ELSE data.amount.cents
         IN (IF counts THEN number * 1000 ELSE 0) + SumCompleted(records, start, end, ids \ {id})

\* A rounding that truncates.
ToFixed2Truncating(total) == total \div 1000

\* Number(totalAmount.toFixed(2)), in hundredths.
ToFixed2(total) == (total + 500) \div 1000

\* was: the cycle's totalAmount when the billing query was sent (-1 without
\* a document); disturbed: what another party wrote since the call started,
\* "record" for a billing record, "cycle" for cycle documents only.
NoCall == [fn |-> "none", pc |-> "idle", cycleId |-> 0, total |-> 0, was |-> -1,
           queryFailed |-> FALSE, created |-> FALSE, updated |-> FALSE, disturbed |-> "no"]

\* A billing query whose failure is not caught: the update goes on with 0.
AfterBillingQueryUncaught(call, ok, total) ==
    IF ok THEN [call EXCEPT !.pc = "updateDoc", !.total = total]
    ELSE [call EXCEPT !.pc = "updateDoc", !.total = 0, !.queryFailed = TRUE]

\* await getDocs(billingQuery): on success updateDoc is awaited with the
\* total, on failure the catch logs and the function returns.
AfterBillingQuery(call, ok, total) ==
    IF ok THEN [call EXCEPT !.pc = "updateDoc", !.total = total]
    ELSE [call EXCEPT !.pc = "resolved", !.queryFailed = TRUE]

\* The totalAmount of a cycle document, -1 when there is none.
TotalOf(cycles, id) == IF id \in DOMAIN cycles THEN cycles[id].totalAmount ELSE -1

InitBt ==
    /\ btRecords \in [RecordIds -> BillingSamples]
    /\ btCycles \in {<<>>, <<[totalAmount |-> 4200]>>}
    /\ btCalls = [c \in CallIds |-> NoCall]
    /\ btGhost = 0

IdleBt ==
    /\ btRecords = [r \in RecordIds |-> NoRecord]
    /\ btCycles = <<>>
    /\ btCalls = [c \in CallIds |-> NoCall]
    /\ btGhost = 0

\* A write of another party disturbs every call that has started.
Disturb(calls, except, by) ==
    [c \in DOMAIN calls |->
       IF c # except /\ calls[c].pc # "idle"
       THEN [calls[c] EXCEPT !.disturbed = IF by = "record" \/ @ = "record" THEN "record"
                                           ELSE "cycle"]
       ELSE calls[c]]

\* Some billing operation writes a billing record.
BtRecordWritten ==
    /\ btGhost < MaxRecordWrites
    /\ \E r \in RecordIds, data \in BillingSamples :
         /\ data # btRecords[r]
         /\ btRecords' = [btRecords EXCEPT ![r] = data]
    /\ btCalls' = Disturb(btCalls, 0, "record")
    /\ btGhost' = btGhost + 1
    /\ UNCHANGED btCycles
    /\ UNCHANGED OtherThanBt

\* A call starts: updateCycleTotalAmount with the id of the month's cycle
\* document, or updateCycleTotalForDate with a date of the month.  The
\* dynamic import awaited first touches no data; when it rejects, the catch
\* returns.
BtCall ==
    \E c \in CallIds, fn \in {"updateCycleTotalAmount", "updateCycleTotalForDate"},
       imported \in BOOLEAN :
      /\ btCalls[c].pc = "idle"
      /\ \A earlier \in 1..(c - 1) : btCalls[earlier].pc # "idle"
      /\ btCalls' = [btCalls EXCEPT ![c] =
                        IF ~imported THEN [NoCall EXCEPT !.fn = fn, !.pc = "resolved"]
                        ELSE IF fn = "updateCycleTotalAmount"
                        THEN [NoCall EXCEPT !.fn = fn, !.pc = "getDocs billing", !.cycleId = 1,
                                            !.was = TotalOf(btCycles, 1)]
                        ELSE [NoCall EXCEPT !.fn = fn, !.pc = "getDocs cycles"]]
      /\ UNCHANGED <<btRecords, btCycles, btGhost>>
      /\ UNCHANGED OtherThanBt

\* The cycle lookup of updateCycleTotalForDate settled: the first document
\* found is passed to updateCycleTotalAmount (whose import may reject); with
\* none found addDoc is awaited.
BtCyclesQueried ==
    \E c \in CallIds, ok \in BOOLEAN, imported \in BOOLEAN :
      /\ btCalls[c].pc = "getDocs cycles"
      /\ ~imported => ok /\ Len(btCycles) > 0
      /\ btCalls' = [btCalls EXCEPT ![c] =
                        IF ~ok THEN [@ EXCEPT !.pc = "resolved"]
                        ELSE IF Len(btCycles) > 0
                        THEN [@ EXCEPT !.cycleId = 1, !.was = TotalOf(btCycles, 1),
                                 !.pc = IF imported THEN "getDocs billing" ELSE "resolved"]
                        ELSE [@ EXCEPT !.pc = "addDoc"]]
      /\ UNCHANGED <<btRecords, btCycles, btGhost>>
      /\ UNCHANGED OtherThanBt

\* addDoc settled: the new cycle document starts with totalAmount 0 and is
\* passed to updateCycleTotalAmount.
BtCycleAdded ==
    \E c \in CallIds, ok \in BOOLEAN, imported \in BOOLEAN :
      /\ btCalls[c].pc = "addDoc"
      /\ ~imported => ok
      /\ IF ok
         THEN /\ btCycles' = Append(btCycles, [totalAmount |-> 0])
              /\ btCalls' = [Disturb(btCalls, c, "cycle") EXCEPT ![c] =
                                [@ EXCEPT !.cycleId = Len(btCycles) + 1, !.created = TRUE,
                                    !.was = 0,
                                    !.pc = IF imported THEN "getDocs billing" ELSE "resolved"]]
         ELSE /\ btCalls' = [btCalls EXCEPT ![c].pc = "resolved"]
              /\ UNCHANGED btCycles
      /\ UNCHANGED <<btRecords, btGhost>>
      /\ UNCHANGED OtherThanBt

\* The billing query settled: the total is summed, in floating point, from
\* the records it returned.
BtBillingQueried ==
    \E c \in CallIds, ok \in BOOLEAN, floatError \in {-1, 0, 1} :
      /\ btCalls[c].pc = "getDocs billing"
      /\ ~ok => floatError = 0
      /\ btCalls' = [btCalls EXCEPT ![c] =
                        AfterBillingQuery(@, ok,
                            ToFixed2(SumCompleted(btRecords, CycleStart, CycleEnd, RecordIds)
                                     + floatError))]
      /\ UNCHANGED <<btRecords, btCycles, btGhost>>
      /\ UNCHANGED OtherThanBt

\* updateDoc settled; it rejects when the cycle document does not exist.
BtCycleUpdated ==
    \E c \in CallIds, ok \in BOOLEAN :
      /\ btCalls[c].pc = "updateDoc"
      /\ IF ok /\ btCalls[c].cycleId \in 1..Len(btCycles)
         THEN /\ btCycles' = [btCycles EXCEPT ![btCalls[c].cycleId].totalAmount = btCalls[c].total]
              /\ btCalls' = [Disturb(btCalls, c, "cycle") EXCEPT ![c] =
                                [@ EXCEPT !.pc = "resolved", !.updated = TRUE]]
         ELSE /\ btCalls' = [btCalls EXCEPT ![c].pc = "resolved"]
              /\ UNCHANGED btCycles
      /\ UNCHANGED <<btRecords, btGhost>>
      /\ UNCHANGED OtherThanBt

NextBt ==
    \/ BtRecordWritten \/ BtCall \/ BtCyclesQueried \/ BtCycleAdded
    \/ BtBillingQueried \/ BtCycleUpdated

(***************************************************************************)
(*     ANALYTICS MODAL: AnalyticsModal and its loadAnalytics               *)
(***************************************************************************)

\* The most fetches started in one run.
MaxFetches == 3

\* Values of the patientId prop; the empty text is falsy.
ModalPatients == {"", "p1", "p2"}

\* analytics === null, and the result fetched for a patient.
NoAnalytics == [patientId |-> "null"]
AnalyticsOf(patientId) == [patientId |-> patientId]

\* Messages of the errors fetchPatientAnalytics rejects with.
FetchErrors == {"No report versions found for this patient", ""}

\* err?.message || 'Failed to load patient analytics'
ErrorText(message) == IF message = "" THEN "Failed to load patient analytics" ELSE message

InitAm ==
    /\ amMounted = FALSE
    /\ amIsOpen = FALSE
    /\ amPatientId = ""
    /\ amAnalytics = NoAnalytics
    /\ amLoading = FALSE
    /\ amError = "null"
    /\ amFetches = {}
    /\ amGhost = 0

IdleAm == InitAm

\* loadAnalytics up to its await: the three setters, then
\* fetchPatientAnalytics(patientId) with the patientId of the render.
LoadAnalytics(patientId) ==
    /\ amGhost < MaxFetches
    /\ amLoading' = TRUE
    /\ amError' = "null"
    /\ amAnalytics' = NoAnalytics
    /\ amFetches' = amFetches \cup {[id |-> amGhost + 1, patientId |-> patientId]}
    /\ amGhost' = amGhost + 1

\* The effect on [isOpen, patientId], run with the props of the render.
ModalEffect(isOpen, patientId) ==
    IF isOpen /\ patientId # ""
    THEN LoadAnalytics(patientId)
    ELSE /\ amAnalytics' = NoAnalytics
         /\ amError' = "null"
         /\ amLoading' = FALSE
         /\ UNCHANGED <<amFetches, amGhost>>

\* The parent mounts the modal: fresh state, then the effect runs.
AmMount ==
    \E isOpen \in BOOLEAN, patientId \in ModalPatients :
      /\ ~amMounted
      /\ amMounted' = TRUE
      /\ amIsOpen' = isOpen
      /\ amPatientId' = patientId
      /\ ModalEffect(isOpen, patientId)
      /\ UNCHANGED OtherThanAm

\* The parent stops rendering the modal: its state is dropped, and the
\* setters of fetches still in flight no longer have any effect.
AmUnmount ==
    /\ amMounted
    /\ amMounted' = FALSE
    /\ amIsOpen' = FALSE
    /\ amPatientId' = ""
    /\ amAnalytics' = NoAnalytics
    /\ amLoading' = FALSE
    /\ amError' = "null"
    /\ amFetches' = {}
    /\ UNCHANGED amGhost
    /\ UNCHANGED OtherThanAm

\* The parent renders the modal with other props (it closes or reopens the
\* modal, or passes another patient): the effect runs again.
AmPropsChanged ==
    \E isOpen \in BOOLEAN, patientId \in ModalPatients :
      /\ amMounted
      /\ <<isOpen, patientId>> # <<amIsOpen, amPatientId>>
      /\ amIsOpen' = isOpen
      /\ amPatientId' = patientId
      /\ ModalEffect(isOpen, patientId)
      /\ UNCHANGED amMounted
      /\ UNCHANGED OtherThanAm

\* A click on Retry, which is rendered while the modal is open with an error.
AmRetry ==
    /\ amMounted /\ amIsOpen /\ amError # "null"
    /\ LoadAnalytics(amPatientId)
    /\ UNCHANGED <<amMounted, amIsOpen, amPatientId>>
    /\ UNCHANGED OtherThanAm

\* fetchPatientAnalytics resolved: setAnalytics(result), then the finally.
AmFetchResolved ==
    \E fetch \in amFetches :
      /\ amFetches' = amFetches \ {fetch}
      /\ amAnalytics' = AnalyticsOf(fetch.patientId)
      /\ amLoading' = FALSE
      /\ UNCHANGED <<amMounted, amIsOpen, amPatientId, amError, amGhost>>
      /\ UNCHANGED OtherThanAm

\* fetchPatientAnalytics rejected: setError, then the finally.
AmFetchRejected ==
    \E fetch \in amFetches, message \in FetchErrors :
      /\ amFetches' = amFetches \ {fetch}
      /\ amError' = ErrorText(message)
      /\ amLoading' = FALSE
      /\ UNCHANGED <<amMounted, amIsOpen, amPatientId, amAnalytics, amGhost>>
      /\ UNCHANGED OtherThanAm

NextAm ==
    \/ AmMount \/ AmUnmount \/ AmPropsChanged \/ AmRetry
    \/ AmFetchResolved \/ AmFetchRejected

(***************************************************************************)
(*     BILLING CYCLES AROUND THE CURRENT DATE                              *)
(***************************************************************************)

\* The cycle of the month given by year and month (1-12): its first day and
\* day 0 of the month after, formatted.
CycleOfMonth(year, month, tz) ==
    [month |-> month, year |-> year,
     startDate |-> FormatDate(NewDateLocal(year, month - 1, 1, tz), tz),
     endDate |-> FormatDate(NewDateLocal(year, month, 0, tz), tz)]

GetCurrentBillingCycle(now, tz) ==
    CycleOfMonth(LocalCivil(now, tz).y, LocalCivil(now, tz).m, tz)

\* A previous cycle that does not wrap to December.
GetPreviousBillingCycleNoWrap(now, tz) ==
    CycleOfMonth(LocalCivil(now, tz).y, LocalCivil(now, tz).m - 1, tz)

\* now.getMonth() is LocalCivil(now).m - 1.
GetPreviousBillingCycle(now, tz) ==
    LET getMonth == LocalCivil(now, tz).m - 1
        getFullYear == LocalCivil(now, tz).y
        year == IF getMonth = 0 THEN getFullYear - 1 ELSE getFullYear
        month == IF getMonth = 0 THEN 12 ELSE getMonth
    IN CycleOfMonth(year, month, tz)

GetNextBillingCycle(now, tz) ==
    LET getMonth == LocalCivil(now, tz).m - 1
        getFullYear == LocalCivil(now, tz).y
        year == IF getMonth = 11 THEN getFullYear + 1 ELSE getFullYear
        month == IF getMonth = 11 THEN 1 ELSE getMonth + 2
    IN CycleOfMonth(year, month, tz)

\* The clock is read at some instant of some civil date in the host's zone.
InitCy ==
    /\ cyTz \in TzOffsets
    /\ \E c \in CivilDates, ms \in TimesOfDay :
         /\ c.d <= DaysInMonth(c.y, c.m)
         /\ cyNow = DateInput(c, ms, cyTz).instant
    /\ cyCurrent = NoCycle
    /\ cyPrevious = NoCycle
    /\ cyNext = NoCycle

IdleCy ==
    /\ cyTz = 0
    /\ cyNow = [day |-> 0, ms |-> 0]
    /\ cyCurrent = NoCycle
    /\ cyPrevious = NoCycle
    /\ cyNext = NoCycle

CyCurrent ==
    /\ cyCurrent = NoCycle
    /\ cyCurrent' = GetCurrentBillingCycle(cyNow, cyTz)
    /\ UNCHANGED <<cyTz, cyNow, cyPrevious, cyNext>>
    /\ UNCHANGED OtherThanCy

CyPrevious ==
    /\ cyPrevious = NoCycle
    /\ cyPrevious' = GetPreviousBillingCycle(cyNow, cyTz)
    /\ UNCHANGED <<cyTz, cyNow, cyCurrent, cyNext>>
    /\ UNCHANGED OtherThanCy

CyNext ==
    /\ cyNext = NoCycle
    /\ cyNext' = GetNextBillingCycle(cyNow, cyTz)
    /\ UNCHANGED <<cyTz, cyNow, cyCurrent, cyPrevious>>
    /\ UNCHANGED OtherThanCy

NextCy == CyCurrent \/ CyPrevious \/ CyNext

(***************************************************************************)
(*     SESSION COMPLETION STATUS: the completionStatus memo                *)
(***************************************************************************)

\* The largest totalSessionsRequired tried.
MaxSessions == 3

\* The patients documents tried: none found, or one whose two fields are
\* numbers or something else.
PatientDocs ==
    {NoPatient} \cup
    [empty : {FALSE}, hasReportData : {FALSE},
     totalSessionsRequired : {NotNumber} \cup {Num(n) : n \in 0..MaxSessions},
     remainingSessions : {NotNumber} \cup {Num(n) : n \in -1..(MaxSessions + 1)}]

\* setPatientInfo({...}) of loadData: a field that is not a number becomes
\* undefined; without a document patientInfo stays null.
ToPatientInfo(data) ==
    IF data.empty THEN NullInfo
    ELSE [set |-> TRUE,
          totalSessions |-> IF data.totalSessionsRequired.isNumber
                            THEN data.totalSessionsRequired ELSE NotNumber,
          remainingSessions |-> IF data.remainingSessions.isNumber
                                THEN data.remainingSessions ELSE NotNumber]

\* Math.round(numerator / denominator) for a positive denominator.
RoundDiv(numerator, denominator) == (2 * numerator + denominator) \div (2 * denominator)

Max(a, b) == IF a >= b THEN a ELSE b

\* The completionStatus memo.
CompletionStatus(info, length) ==
    IF ~info.set \/ ~info.totalSessions.isNumber \/ info.totalSessions.value = 0
    THEN [completed |-> length, total |-> length, percentage |-> 100, remaining |-> 0]
    ELSE LET remainingOr0 == IF info.remainingSessions.isNumber
                             THEN info.remainingSessions.value ELSE 0
             completed == info.totalSessions.value - remainingOr0
         IN [completed |-> Max(0, completed),
             total |-> info.totalSessions.value,
             percentage |-> RoundDiv(completed * 100, info.totalSessions.value),
             remaining |-> Max(0, remainingOr0)]

NoStatus == [completed |-> -1, total |-> -1, percentage |-> -1, remaining |-> -1]

InitCs ==
    /\ csPatient \in PatientDocs
    /\ csLength \in 0..MaxReports
    /\ csStatus = NoStatus

IdleCs ==
    /\ csPatient = NoPatient
    /\ csLength = 0
    /\ csStatus = NoStatus

\* The render after loadData: the memo is computed from patientInfo and
\* reportVersions.length.
CsRender ==
    /\ csStatus = NoStatus
    /\ csStatus' = CompletionStatus(ToPatientInfo(csPatient), csLength)
    /\ UNCHANGED <<csPatient, csLength>>
    /\ UNCHANGED OtherThanCs

NextCs == CsRender

(***************************************************************************)
(*                           SPECIFICATIONS                                *)
(***************************************************************************)

IdleApi == InitApi

InitSpecApi ==
    InitApi /\ IdleBilling /\ IdleCsv /\ IdleUsers /\ IdleProgress /\ IdleAnalytics /\ IdleStaff /\ IdleLs /\ IdleLr /\ IdleLo /\ IdleBt /\ IdleAm /\ IdleCy /\ IdleCs
SpecApi == InitSpecApi /\ [][NextApi]_vars

InitSpecBilling ==
    InitBilling /\ IdleApi /\ IdleCsv /\ IdleUsers /\ IdleProgress /\ IdleAnalytics /\ IdleStaff /\ IdleLs /\ IdleLr /\ IdleLo /\ IdleBt /\ IdleAm /\ IdleCy /\ IdleCs
SpecBilling == InitSpecBilling /\ [][NextBilling]_vars

InitSpecCsv ==
    InitCsv /\ IdleApi /\ IdleBilling /\ IdleUsers /\ IdleProgress /\ IdleAnalytics /\ IdleStaff /\ IdleLs /\ IdleLr /\ IdleLo /\ IdleBt /\ IdleAm /\ IdleCy /\ IdleCs
SpecCsv == InitSpecCsv /\ [][NextCsv]_vars

InitSpecUsers ==
    InitUsers /\ IdleApi /\ IdleBilling /\ IdleCsv /\ IdleProgress /\ IdleAnalytics /\ IdleStaff /\ IdleLs /\ IdleLr /\ IdleLo /\ IdleBt /\ IdleAm /\ IdleCy /\ IdleCs
SpecUsers == InitSpecUsers /\ [][NextUsers]_vars

InitSpecProgress ==
    InitProgress /\ IdleApi /\ IdleBilling /\ IdleCsv /\ IdleUsers /\ IdleAnalytics /\ IdleStaff /\ IdleLs /\ IdleLr /\ IdleLo /\ IdleBt /\ IdleAm /\ IdleCy /\ IdleCs
SpecProgress == InitSpecProgress /\ [][NextProgress]_vars

InitSpecAnalytics ==
    InitAnalytics /\ IdleApi /\ IdleBilling /\ IdleCsv /\ IdleUsers /\ IdleProgress /\ IdleStaff /\ IdleLs /\ IdleLr /\ IdleLo /\ IdleBt /\ IdleAm /\ IdleCy /\ IdleCs
SpecAnalytics == InitSpecAnalytics /\ [][NextAnalytics]_vars

InitSpecStaff ==
    InitStaff /\ IdleApi /\ IdleBilling /\ IdleCsv /\ IdleProgress /\ IdleAnalytics /\ IdleLs /\ IdleLr /\ IdleLo /\ IdleBt /\ IdleAm /\ IdleCy /\ IdleCs
SpecStaff == InitSpecStaff /\ [][NextStaff]_vars

InitSpecLs ==
    InitLs /\ IdleApi /\ IdleBilling /\ IdleCsv /\ IdleUsers /\ IdleProgress /\ IdleAnalytics /\ IdleStaff /\ IdleLr /\ IdleLo /\ IdleBt /\ IdleAm /\ IdleCy /\ IdleCs
SpecLs == InitSpecLs /\ [][NextLs]_vars

InitSpecLr ==
    InitLr /\ IdleApi /\ IdleBilling /\ IdleCsv /\ IdleUsers /\ IdleProgress /\ IdleAnalytics /\ IdleStaff /\ IdleLs /\ IdleLo /\ IdleBt /\ IdleAm /\ IdleCy /\ IdleCs
SpecLr == InitSpecLr /\ [][NextLr]_vars

\* The toasts of one signed-in admin; setTimeout callbacks run once their
\* delay has passed.
InitSpecLrTimers == InitSpecLr /\ lrUser = "a@x"
NextLrTimers == LrRequestChanged \/ LrSnapshot \/ LrTimerFires \/ RemoveToast
SpecLrTimers == InitSpecLrTimers /\ [][NextLrTimers]_vars /\ WF_vars(LrTimerFires)

InitSpecLo ==
    InitLo /\ IdleApi /\ IdleBilling /\ IdleCsv /\ IdleUsers /\ IdleProgress /\ IdleAnalytics /\ IdleStaff /\ IdleLs /\ IdleLr /\ IdleBt /\ IdleAm /\ IdleCy /\ IdleCs
SpecLo == InitSpecLo /\ [][NextLo]_vars

InitSpecBt ==
    InitBt /\ IdleApi /\ IdleBilling /\ IdleCsv /\ IdleUsers /\ IdleProgress /\ IdleAnalytics /\ IdleStaff /\ IdleLs /\ IdleLr /\ IdleLo /\ IdleAm /\ IdleCy /\ IdleCs
SpecBt == InitSpecBt /\ [][NextBt]_vars

InitSpecAm ==
    InitAm /\ IdleApi /\ IdleBilling /\ IdleCsv /\ IdleUsers /\ IdleProgress /\ IdleAnalytics /\ IdleStaff /\ IdleLs /\ IdleLr /\ IdleLo /\ IdleBt /\ IdleCy /\ IdleCs
SpecAm == InitSpecAm /\ [][NextAm]_vars

InitSpecCy ==
    InitCy /\ IdleApi /\ IdleBilling /\ IdleCsv /\ IdleUsers /\ IdleProgress /\ IdleAnalytics /\ IdleStaff /\ IdleLs /\ IdleLr /\ IdleLo /\ IdleBt /\ IdleAm /\ IdleCs
SpecCy == InitSpecCy /\ [][NextCy]_vars

InitSpecCs ==
    InitCs /\ IdleApi /\ IdleBilling /\ IdleCsv /\ IdleUsers /\ IdleProgress /\ IdleAnalytics /\ IdleStaff /\ IdleLs /\ IdleLr /\ IdleLo /\ IdleBt /\ IdleAm /\ IdleCy
SpecCs == InitSpecCs /\ [][NextCs]_vars

(***************************************************************************)
(* Claims about the HTTP handlers                                          *)
(***************************************************************************)

\* C1: when analyze-patient got a non-empty reportHistory array, the API key
\* is configured and the chat-completion call failed with status 429 or code
\* 'rate_limit_exceeded', the one response is the canned fallback: success,
\* the fixed data object, a non-error status.
C1_RateLimitFallback ==
    (/\ apiHandler = "analyze" /\ apiPc = "done"
     /\ apiReq.body = "object" /\ apiReq.reportHistory = "nonEmpty" /\ apiReq.apiKey
     /\ apiUpstream.kind = "rejected"
     /\ (apiUpstream.err.status = 429 \/ apiUpstream.err.code = "rate_limit_exceeded"))
    => /\ ~apiEscaped
       /\ apiResponses = <<[status |-> 200, success |-> TRUE, data |-> "fallback"]>>

\* A rate-limit failure that carries another status than 429 was answered.
C1_Witness ==
    /\ apiHandler = "analyze" /\ apiPc = "done"
    /\ apiUpstream.kind = "rejected"
    /\ apiUpstream.err.status = 401 /\ apiUpstream.err.code = "rate_limit_exceeded"
    /\ Len(apiResponses) = 1

\* C2: every request of the three handlers ends with exactly one JSON
\* response, no exception leaves the handler whichever step fails, and every
\* response that reports a failure carries status 400, 401 or 500.
C2_OneJsonResponse ==
    /\ ~apiEscaped
    /\ (apiPc = "done" => Len(apiResponses) = 1)
    /\ (apiPc # "done" => Len(apiResponses) = 0)
    /\ \A i \in 1..Len(apiResponses) :
         ~apiResponses[i].success => apiResponses[i].status \in {400, 401, 500}

\* The upstream reply parsed to null and the handler still answered (a 500).
C2_Witness ==
    /\ apiHandler = "analyze" /\ apiPc = "done"
    /\ apiUpstream.kind = "resolved" /\ apiUpstream.value = "jsonNull"
    /\ Len(apiResponses) = 1 /\ apiResponses[1].status = 500

\* The request of the change-password handler passes every check of the claim.
PasswordRequestAccepted ==
    /\ apiReq.body = "object"
    /\ Trim(apiReq.idToken) # <<>>
    /\ Trim(apiReq.currentPassword) # <<>>
    /\ Trim(apiReq.newPassword) # <<>>
    /\ Len(Trim(apiReq.newPassword)) >= 6
    /\ apiUpstream.kind = "verified" /\ apiUpstream.value = "email"

\* C3 as stated: updateUser is called only for an accepted request, and in
\* every other case the password is unchanged and the response is 401 or 400.
C3_Original ==
    apiHandler = "password" =>
      /\ (updateCalls > 0 => PasswordRequestAccepted)
      /\ (apiPc = "done" /\ ~PasswordRequestAccepted) =>
            /\ authPassword = pwBefore
            /\ apiResponses[1].status \in {400, 401}

\* C3 as amended: updateUser is called only for an accepted request; in every
\* other case the password is unchanged and the response is 500 when the body
\* is not parseable JSON, 401 when the token is missing or is rejected, and
\* 400 for any other validation failure.
C3_UpdateOnlyWhenAccepted ==
    apiHandler = "password" =>
      /\ (updateCalls > 0 => PasswordRequestAccepted)
      /\ (apiPc = "done" /\ ~PasswordRequestAccepted) =>
            /\ authPassword = pwBefore
            /\ updateCalls = 0
            /\ Len(apiResponses) = 1
            /\ apiResponses[1].status =
                 IF apiReq.body = "malformed" THEN 500
                 ELSE IF apiReq.body # "object" \/ Trim(apiReq.idToken) = <<>>
                         \/ apiUpstream.kind = "rejected" THEN 401
                 ELSE 400

\* An accepted request changed the password.
C3_Witness ==
    /\ apiHandler = "password" /\ apiPc = "done"
    /\ updateCalls = 1 /\ authPassword # pwBefore
    /\ apiResponses[1].status = 200

\* C4: a request with a valid ID token and a currentPassword that is not the
\* user's password does not change the password.
C4_CurrentPasswordChecked ==
    (/\ apiHandler = "password"
     /\ apiUpstream.kind = "verified"
     /\ apiReq.currentPassword # pwBefore /\ Trim(apiReq.currentPassword) # pwBefore)
    => authPassword = pwBefore

(***************************************************************************)
(* Claims about the billing-cycle helpers                                  *)
(***************************************************************************)

\* C5: for every calendar date, given as a Date or as a 'YYYY-MM-DD' text,
\* getBillingCycleForDate returns the date's month (1..12) and year, the
\* first day of that month as startDate and its last day as endDate, both
\* as zero-padded YYYY-MM-DD.
C5_CycleOfDate ==
    bcPc \in {"computed", "compared"} =>
      LET c == bcInput.civil
      IN /\ bcCycle.month \in 1..12
         /\ bcCycle.month = c.m /\ bcCycle.year = c.y
         /\ bcCycle.startDate = IsoText(c.y, c.m, 1)
         /\ bcCycle.endDate = IsoText(c.y, c.m, DaysInMonth(c.y, c.m))

\* C6: for every date d and c = getBillingCycleForDate(d),
\* isDateInBillingCycle(d, c.startDate, c.endDate) is true, and it is false
\* for the start and end dates of every other month's cycle.
C6_DateInOwnCycle ==
    /\ bcPc \in {"computed", "compared"} => bcIn
    /\ bcPc = "compared" => (~bcOther.startIn /\ ~bcOther.endIn)

(***************************************************************************)
(* Claims about the employee CSV exports                                   *)
(***************************************************************************)

\* A CSV reader with the standard quoting rules: a comma or a newline
\* outside double quotes ends a field or a record; a field in double quotes
\* is read without them, "" inside it being one quote.  A character is
\* outside quotes when an even number of quotes precedes it.
CsvOutside(text, i) == Cardinality({k \in 1..(i - 1) : text[k] = Quote}) % 2 = 0
CsvCuts(text, c) == {i \in 1..Len(text) : text[i] = c /\ CsvOutside(text, i)}
CsvNth(set, j) == CHOOSE k \in set : Cardinality({x \in set : x < k}) = j - 1
CsvSplit(text, cuts) ==
    [j \in 1..(Cardinality(cuts) + 1) |->
        SubSeq(text, IF j = 1 THEN 1 ELSE CsvNth(cuts, j - 1) + 1,
                     IF j = Cardinality(cuts) + 1 THEN Len(text) ELSE CsvNth(cuts, j) - 1)]
CsvUnquote(raw) ==
    IF raw # <<>> /\ raw[1] = Quote
    THEN LET inner == SubSeq(raw, 2, Len(raw) - 1)
             keep == {k \in 1..Len(inner) : inner[k] # Quote \/ ~CsvOutside(inner, k)}
         IN [j \in 1..Cardinality(keep) |-> inner[CsvNth(keep, j)]]
    ELSE raw
CsvRead(text) ==
    LET lines == CsvSplit(text, CsvCuts(text, Newline))
    IN [r \in 1..Len(lines) |->
          LET fields == CsvSplit(lines[r], CsvCuts(lines[r], Comma))
          IN [f \in 1..Len(fields) |-> CsvUnquote(fields[f])]]

\* How the claim says a cell is written.
RECURSIVE CsvDoubled(_)
CsvDoubled(cell) ==
    IF cell = <<>> THEN <<>>
    ELSE IF cell[1] = Quote THEN <<Quote, Quote>> \o CsvDoubled(Tail(cell))
    ELSE <<cell[1]>> \o CsvDoubled(Tail(cell))

CsvWritten(cell) ==
    IF \E k \in 1..Len(cell) : cell[k] \in {Comma, Quote, Newline}
    THEN <<Quote>> \o CsvDoubled(cell) \o <<Quote>>
    ELSE cell

\* C7: in both exports every cell with a comma, a double quote or a newline
\* is written in double quotes with its quotes doubled and every other cell
\* unchanged, so reading the text back gives the header row and then one
\* record per exported employee, each with as many fields as the header row
\* and with the original cell values.
C7_CsvRoundTrip ==
    csvPc \in {"export", "details"} =>
      LET read == CsvRead(csvContent)
          exported == IF csvPc = "export"
                      THEN Cardinality({i \in 1..Len(csvEmployees) :
                                          csvEmployees[i].deleted = csvShowDeleted})
                      ELSE Len(csvEmployees)
      IN /\ Len(read) = exported + 1
         /\ read[1] = csvHeaders
         /\ \A i \in 1..exported :
              /\ Len(read[i + 1]) = Len(csvHeaders)
              /\ read[i + 1] = csvRows[i]
         /\ csvContent =
              Join(<<Join(csvHeaders, Comma)>>
                   \o [i \in 1..Len(csvRows) |->
                         Join([j \in 1..Len(csvRows[i]) |-> CsvWritten(csvRows[i][j])], Comma)],
                   Newline)

\* Both kinds of cell were exported in one file of two employees.
C7_Witness ==
    /\ csvPc = "details" /\ Len(csvEmployees) = 2
    /\ csvEmployees[1].userName = <<"a", Newline, "b">>
    /\ csvEmployees[2].userName = <<"a", Quote, "b", Quote>>
    /\ csvEmployees[2].address # <<>>

(***************************************************************************)
(* Claims about the employee form                                          *)
(***************************************************************************)

\* C8: when handleSubmit has run on a form whose trimmed name or trimmed
\* email is empty, or which creates an employee with a non-empty trimmed
\* password of fewer than 6 characters, no Firestore write was attempted, the
\* dialog is open, saving is false and an error message is set; otherwise
\* exactly one write was attempted: updateDoc for an edit, addDoc for a create.
C8_SubmitValidation ==
    usrLast.handler = "handleSubmit" =>
      LET name == Trim(formState.userName)
          email == Trim(formState.userEmail)
          password == Trim(formState.password)
          invalid == \/ name = <<>>
                     \/ email = <<>>
                     \/ (editingEmployee = NullEmployee /\ password # <<>> /\ Len(password) < 6)
      IN IF invalid
         THEN /\ usrWrites = usrLast.writes /\ usrPending = "none"
              /\ isDialogOpen /\ ~saving /\ error # "null"
         ELSE /\ usrWrites = usrLast.writes + 1
              /\ usrPending = (IF editingEmployee = NullEmployee THEN "addDoc" ELSE "updateDoc")

\* A new employee with a padded password of 4 characters was refused.
C8_Witness ==
    /\ usrLast.handler = "handleSubmit"
    /\ editingEmployee = NullEmployee
    /\ formState.userName = <<" ", "a", " ">> /\ formState.userEmail = <<"e">>
    /\ Len(formState.password) = 6 /\ Len(Trim(formState.password)) = 4
    /\ error = "password" /\ usrWrites = 0

(***************************************************************************)
(* Claims about the progress analytics                                     *)
(***************************************************************************)

\* A load has set the list from the documents it was given.
ProgressLoaded == progPc = "done" /\ progError = "null" /\ progDocs # <<>>

\* C9 as stated: after a successful load the reportVersions list is in
\* non-decreasing createdAt order.
C9_Original ==
    ProgressLoaded =>
      \A i, j \in 1..Len(reportVersions) :
         i < j => reportVersions[i].createdAt <= reportVersions[j].createdAt

\* C9: after a successful load the reportVersions list holds the loaded
\* documents in non-decreasing version order (an absent version counting as
\* 0), and reports of equal version in non-decreasing createdAt order (an
\* absent createdAt counting as the time of the load).
C9_VersionThenCreatedAt ==
    ProgressLoaded =>
      /\ Len(reportVersions) = Len(progDocs)
      /\ \A v \in {ToReportVersion(progDocs[k], progNow) : k \in 1..Len(progDocs)} :
            Cardinality({k \in 1..Len(progDocs) : ToReportVersion(progDocs[k], progNow) = v})
              = Cardinality({k \in 1..Len(reportVersions) : reportVersions[k] = v})
      /\ \A i, j \in 1..Len(reportVersions) :
            i < j => \/ reportVersions[i].version < reportVersions[j].version
                     \/ /\ reportVersions[i].version = reportVersions[j].version
                        /\ reportVersions[i].createdAt <= reportVersions[j].createdAt

\* Three documents delivered newest first, two of them of the same version,
\* and one without a version that was created last.
C9_Witness ==
    /\ ProgressLoaded
    /\ progDocs = <<[version |-> NotNumber, createdAt |-> Num(3)],
                    [version |-> Num(1), createdAt |-> Num(2)],
                    [version |-> Num(1), createdAt |-> Num(1)]>>
    /\ reportVersions = <<[version |-> 0, createdAt |-> 3], [version |-> 1, createdAt |-> 1],
                          [version |-> 1, createdAt |-> 2]>>

(***************************************************************************)
(* Claims about the analytics service                                      *)
(***************************************************************************)

\* The history entries of the documents the resolved query supplied.
SuppliedEntries == [i \in 1..Len(anSnapshot) |-> ToHistoryEntry(anSnapshot[i], anNow)]

\* How often an entry occurs in a sequence.
Occurrences(entry, seq) == Cardinality({i \in 1..Len(seq) : seq[i] = entry})

C20_FallbackOrder ==
    /\ \E n \in 0..3 : anQueries = SubSeq(<<"createdAt", "version", "none">>, 1, n)
    /\ Len(anCodes) <= Len(anQueries)
    /\ \A i \in 2..Len(anQueries) : anCodes[i - 1] = "failed-precondition"
    /\ \A i \in 1..Len(anCodes) :
          anCodes[i] # "failed-precondition"
             => /\ i = Len(anCodes) /\ Len(anQueries) = i
                /\ anPc = "thrown" /\ anPosted = <<>>

\* The createdAt query failed for a missing index and the version query for
\* another reason.
C20_Witness ==
    /\ anQueries = <<"createdAt", "version">>
    /\ anCodes = <<"failed-precondition", "permission-denied">>
    /\ anPc = "thrown"

(***************************************************************************)
(* Claims about the employee list                                          *)
(***************************************************************************)

\* The ids shown in the active view or in the Past Employees view.
ShownIds(past) ==
    {FilteredEmployees(employees, past)[i].id : i \in 1..Len(FilteredEmployees(employees, past))}

\* C11: a confirmed handleDelete whose write succeeded changed only deleted,
\* deletedAt and status of that one staff document and removed no document;
\* once a snapshot is delivered every employee removed this way is shown in
\* the Past Employees view and not in the active view; a declined
\* confirmation leaves the documents as they were, starts no write and
\* leaves saving false.
C11_RemovalMarksPast ==
    /\ Len(staffDocs) = Len(staffLast.docs)
    /\ staffLast.handler = "resolved" =>
         /\ \A id \in DOMAIN staffDocs : id # staffLast.id => staffDocs[id] = staffLast.docs[id]
         /\ LET after == staffDocs[staffLast.id]
                before == staffLast.docs[staffLast.id]
            IN /\ after.deleted = "true" /\ after.deletedAt = "Timestamp"
               /\ after.status = "Inactive"
               /\ after.userName = before.userName /\ after.userEmail = before.userEmail
               /\ after.role = before.role
         /\ ~saving
    /\ staffLast.handler = "snapshot" =>
         \A id \in staffLast.removed : id \in ShownIds(TRUE) /\ id \notin ShownIds(FALSE)
    /\ staffLast.handler = "declined" =>
         staffDocs = staffLast.docs /\ ~saving /\ delPending = 0

\* Both employees were removed and the snapshot with them has arrived.
C11_Witness ==
    /\ staffLast.handler = "snapshot"
    /\ staffLast.removed = {1, 2}
    /\ ShownIds(TRUE) = {1, 2}
    /\ staffDocs[1].userName = "b" /\ staffDocs[1].status = "Inactive"

\* C12: after a snapshot is delivered, every staff document in it that has
\* userName, userEmail, status and one of the roles FrontDesk, ClinicalTeam,
\* Physiotherapist, StrengthAndConditioning or Admin is in the employee list.
C12_CompleteStaffListed ==
    staffLast.handler = "snapshot" =>
      \A id \in DOMAIN staffDocs :
         ( /\ staffDocs[id].userName # "undefined" /\ staffDocs[id].userEmail # "undefined"
           /\ staffDocs[id].status # "undefined"
           /\ staffDocs[id].role \in {"FrontDesk", "ClinicalTeam", "Physiotherapist",
                                      "StrengthAndConditioning", "Admin"} )
         => \E i \in 1..Len(employees) : employees[i].id = id

(***************************************************************************)
(* Claims about useLocalStorage                                            *)
(***************************************************************************)

\* C13: the first render has initialValue and has made no storage call;
\* every setItem of a key comes after a getItem of that key; and, as long as
\* neither setValue was called nor the key changed, a valid JSON item found
\* under the key at mount still holds its value and not initialValue, and is
\* the hook's value once the effects of the mount have run.
C13_HydrationBeforeWrite ==
    /\ lsGhost.renders = 1 => storedValue = "initialValue" /\ lsLog = <<>> /\ ~isHydrated
    /\ \A i \in 1..Len(lsLog) :
          lsLog[i].op = "setItem" =>
             \E j \in 1..(i - 1) : lsLog[j].op = "getItem" /\ lsLog[j].key = lsLog[i].key
    /\ (lsGhost.item.kind = "json" /\ lsGhost.events = 0) =>
          /\ lsStore[lsGhost.key] = lsGhost.item
          /\ lsLog # <<>> => storedValue = lsGhost.item.value /\ isHydrated

\* A stored "A" was read at mount, became the value and was written back.
C13_Witness ==
    /\ lsGhost.item = Stringify("A") /\ lsGhost.events = 0
    /\ storedValue = "A"
    /\ Len(lsLog) = 2 /\ lsLog[2].op = "setItem"
    /\ lsEffects = {}

(***************************************************************************)
(* Claims about the leave-request toasts                                   *)
(***************************************************************************)

\* C14: the first snapshot of every subscription creates no toast, and every
\* later snapshot creates exactly one toast for each pending request
\* addressed to this admin whose id was not in the previous snapshot's
\* matching set, and none for any other request.
C14_ToastsOnlyForNewRequests ==
    lrGhost.handler = "snapshot" =>
      IF lrGhost.delivered = 1
      THEN lrGhost.added = <<>>
      ELSE /\ {lrGhost.added[i] : i \in 1..Len(lrGhost.added)}
                = CurrentRequestIds(lrDocs, ToLowerCase(lrUser)) \ lrGhost.previous
           /\ \A i, j \in 1..Len(lrGhost.added) : lrGhost.added[i] = lrGhost.added[j] => i = j

\* The ids a toast can have: `${request.id}-${Date.now()}`.
ToastIds == {<<id, now>> : id \in LeaveIds, now \in LeaveClock}

Shown(toastId) == \E i \in 1..Len(toasts) : toasts[i].id = toastId

\* The toasts of a list other than those with the id, in their order.
Others(list, toastId) ==
    LET other(t) == t.id # toastId IN SelectSeq(list, other)

\* A step of the timer of toastId, or of removeToast(toastId).
RemovalOf(toastId) ==
    \/ lrGhost'.handler = "timer" /\ toastId \in lrTimers /\ lrTimers' = lrTimers \ {toastId}
    \/ lrGhost'.handler = "remove" /\ Shown(toastId) /\ ~Shown(toastId)'

LogoutCalls(inv) ==
    LET mine(e) == e.inv = inv
        own == SelectSeq(loLog, mine)
    IN [i \in 1..Len(own) |-> own[i].op]

\* C15: an invocation of handleLogout that has run to its end has attempted
\* the removal of 'currentUser' once and then called router.replace('/login')
\* once, both after signOut settled when signOut was called, whether it
\* resolved or rejected and whether removeItem threw; an invocation still
\* awaiting signOut has done neither.
C15_LogoutCleanup ==
    \A inv \in 1..MaxLogouts :
       /\ loPc[inv] = "idle" => LogoutCalls(inv) = <<>>
       /\ loPc[inv] = "signOut" => LogoutCalls(inv) = <<"signOut">>
       /\ loPc[inv] = "done" =>
            LogoutCalls(inv) \in {<<"removeItem", "replace /login">>,
                                  <<"signOut", "resolved", "removeItem", "replace /login">>,
                                  <<"signOut", "rejected", "removeItem", "replace /login">>}

\* signOut rejected, removeItem threw and left the item, and the redirect
\* was still made.
C15_Witness ==
    /\ loPc[1] = "done"
    /\ LogoutCalls(1) = <<"signOut", "rejected", "removeItem", "replace /login">>
    /\ loCurrentUser

(***************************************************************************)
(* Claims about the billing cycle totals                                   *)
(***************************************************************************)

\* C16: no call of either function rejects, whichever await fails; a call
\* whose billing query failed has resolved without calling updateDoc, and
\* unless another party wrote meanwhile the cycle document still has the
\* totalAmount it had when the billing query was sent.
C16_NeverThrows ==
    \A c \in CallIds :
       /\ btCalls[c].pc # "rejected"
       /\ btCalls[c].queryFailed =>
            /\ btCalls[c].pc = "resolved" /\ ~btCalls[c].updated
            /\ btCalls[c].disturbed = "no" => TotalOf(btCycles, btCalls[c].cycleId) = btCalls[c].was

\* The billing query of a call for an existing cycle failed.
C16_Witness ==
    /\ btCalls[1].pc = "resolved" /\ btCalls[1].queryFailed
    /\ btCycles = <<[totalAmount |-> 4200]>>
    /\ btCalls[2].pc = "resolved" /\ ~btCalls[2].queryFailed /\ btCalls[2].fn = "updateCycleTotalForDate"

\* The sum of the amounts, in hundredths, of the Completed records dated
\* within the cycle.
CompletedInRange ==
    {r \in RecordIds : /\ btRecords[r].status = "Completed"
                       /\ btRecords[r].date >= CycleStart /\ btRecords[r].date <= CycleEnd}

ExpectedTotal ==
    LET Cents(r) == btRecords[r].amount.cents
        one == IF 1 \in CompletedInRange THEN Cents(1) ELSE 0
        two == IF 2 \in CompletedInRange THEN Cents(2) ELSE 0
    IN one + two

\* C17: once a call has updated the cycle document, and nobody else wrote
\* since the call started, the document's totalAmount is the sum to two
\* decimals of the amounts of exactly the Completed records dated in
\* [start, end].
C17_TotalIsCompletedSum ==
    \A c \in CallIds :
       (btCalls[c].updated /\ btCalls[c].disturbed = "no")
          => btCycles[btCalls[c].cycleId].totalAmount = ExpectedTotal

\* A total was written from a Completed record in range next to records
\* that do not count.
C17_Witness ==
    /\ btCalls[1].fn = "updateCycleTotalAmount"
    /\ btCalls[1].updated /\ btCalls[1].disturbed = "no"
    /\ btRecords[1].amount.cents = 1050
    /\ btRecords[2].date = 4
    /\ btCycles[1].totalAmount = 1050

\* C23: once every call of updateCycleTotalForDate has completed, each
\* having updated its cycle document, and the last billing-record write was
\* followed by the start of a call, every cycle document of the month has
\* the sum of the Completed records dated in the cycle as its totalAmount.
C23_TotalConverges ==
    (/\ \A c \in CallIds : /\ btCalls[c].fn = "updateCycleTotalForDate"
                          /\ btCalls[c].pc = "resolved" /\ btCalls[c].updated
     /\ \E c \in CallIds : btCalls[c].disturbed # "record")
       => \A id \in DOMAIN btCycles : btCycles[id].totalAmount = ExpectedTotal

(***************************************************************************)
(* Claims about the analytics modal                                        *)
(***************************************************************************)

\* C18: whenever the modal is closed (isOpen false, the effect has run),
\* analytics is null, error is null and loading is false, also when a fetch
\* started while it was open settles after the close.
C18_ClosedModalIsReset ==
    (amMounted /\ ~amIsOpen)
       => amAnalytics = NoAnalytics /\ amError = "null" /\ ~amLoading

\* C19: whenever the open modal shows a result (analytics non-null, loading
\* false, error null), the result is the one fetched for the current
\* patientId prop.
C19_ShowsCurrentPatient ==
    (amMounted /\ amIsOpen /\ amAnalytics # NoAnalytics /\ ~amLoading /\ amError = "null")
       => amAnalytics = AnalyticsOf(amPatientId)

(***************************************************************************)
(* Claims about the billing cycles around the current date                 *)
(***************************************************************************)

\* The day number named by a 'YYYY-MM-DD' text.
DayOfText(text) == NewDateFromText(text).day

\* The months of the calendar counted from year 0.
MonthIndex(cycle) == cycle.year * 12 + cycle.month - 1

\* C21: the previous cycle is the month immediately before the current one
\* and the next cycle the month immediately after, across year ends, with
\* months in 1..12; the previous cycle ends the day before the current one
\* starts, and the current one ends the day before the next one starts.
C21_CyclesContiguous ==
    /\ (cyCurrent # NoCycle /\ cyPrevious # NoCycle) =>
          /\ cyPrevious.month \in 1..12
          /\ MonthIndex(cyPrevious) = MonthIndex(cyCurrent) - 1
          /\ DayOfText(cyPrevious.endDate) + 1 = DayOfText(cyCurrent.startDate)
    /\ (cyCurrent # NoCycle /\ cyNext # NoCycle) =>
          /\ cyNext.month \in 1..12
          /\ MonthIndex(cyNext) = MonthIndex(cyCurrent) + 1
          /\ DayOfText(cyCurrent.endDate) + 1 = DayOfText(cyNext.startDate)
    /\ cyCurrent # NoCycle =>
          /\ cyCurrent.month = LocalCivil(cyNow, cyTz).m
          /\ cyCurrent.year = LocalCivil(cyNow, cyTz).y

\* The three cycles were computed in a January.
C21_Witness ==
    /\ cyCurrent # NoCycle /\ cyPrevious # NoCycle /\ cyNext # NoCycle
    /\ cyCurrent.month = 1 /\ cyPrevious.month = 12
    /\ cyPrevious.year = cyCurrent.year - 1

(***************************************************************************)
(* Claims about the session completion status                              *)
(***************************************************************************)

\* C24: for a patient with a numeric totalSessionsRequired > 0 and a numeric
\* or missing remainingSessions, the status has 0 <= percentage <= 100,
\* completed >= 0, remaining >= 0 and completed + remaining = total; without
\* totalSessionsRequired, completed = total = the number of report versions,
\* remaining = 0 and percentage = 100.
C24_CompletionConsistent ==
    csStatus # NoStatus =>
       /\ (/\ ~csPatient.empty /\ csPatient.totalSessionsRequired.isNumber
           /\ csPatient.totalSessionsRequired.value > 0) =>
             /\ csStatus.percentage >= 0 /\ csStatus.percentage <= 100
             /\ csStatus.completed >= 0 /\ csStatus.remaining >= 0
             /\ csStatus.completed + csStatus.remaining = csStatus.total
             /\ csStatus.total = csPatient.totalSessionsRequired.value
       /\ (csPatient.empty \/ ~csPatient.totalSessionsRequired.isNumber) =>
             /\ csStatus.completed = csLength /\ csStatus.total = csLength
             /\ csStatus.remaining = 0 /\ csStatus.percentage = 100

====
